---------------------------- MODULE Spec2Model ----------------------------
(***************************************************************************)
(* A model of godal's C bridge (godal.cpp / vsil_go.cpp):                  *)
(*   - the error/config scope bridge: godalErrorHandler, godalWrap,        *)
(*     godalUnwrap, failed, force*Error and the bridged functions;         *)
(*   - the virtual filesystem bridge: VSIGoFilesystemHandler::Open and     *)
(*     VSIGoHandle::ReadMultiRange.                                        *)
(* The native library (GDAL/OGR/CPL) and the Go callbacks are the          *)
(* environment: their return values and the diagnostics they raise are     *)
(* inputs drawn from small sets.                                           *)
(***************************************************************************)
EXTENDS Integers, Sequences, FiniteSets, TLC

VARIABLES th, vsi, rmr, fm

vars == <<th, vsi, rmr, fm>>

---------------------------------------------------------------------------
(* Bounds *)

\* diagnostics the native library raises during one bridged call
MaxDiag == 2

---------------------------------------------------------------------------
(* Option values: a null pointer is <<>>, a non-null value v is <<v>> *)

None == <<>>
Some(v) == <<v>>

(* CPLErr severities and error numbers used by the bridge *)
CE_None == 0
CE_Debug == 1
CE_Warning == 2
CE_Failure == 3
CPLE_AppDefined == 1
OGRERR_NONE == 0

Threads == {1, 2}

\* messages the native library may raise ("" is a legal, non-null message)
Msgs == {"", "x"}
\* severities the native library raises through the installed handler
Severities == {CE_Debug, CE_Warning, CE_Failure}
\* return codes of the Go logger callback goErrorHandler
LoggerRets == {0, 1}
\* ctx->handlerIdx: 0 is "no logger", anything else names a Go logger
HandlerIdxs == {0, 1}

---------------------------------------------------------------------------
(* Config options: C strings, modelled as sequences of characters *)

OptA1 == <<"A", "=", "1">>
OptA2 == <<"A", "=", "2">>
OptB == <<"B", "=", "1", "=", "2">>
OptNoEq == <<"B">>

\* ctx->configOptions: nullptr, or a null-terminated list of options
ConfigLists ==
    { None, Some(<<OptNoEq, OptA1, OptA2, OptB>>) }

\* strchr(option, '='): index of the first '=', 0 when there is none
RECURSIVE strchrFrom(_, _, _)
strchrFrom(s, ch, i) ==
    IF i > Len(s) THEN 0
    ELSE IF s[i] = ch THEN i
    ELSE strchrFrom(s, ch, i + 1)

strchr(s, ch) == strchrFrom(s, ch, 1)

\* the KEY the code passes once '=' is overwritten by NUL, and idx+1
OptKey(option) == SubSeq(option, 1, strchr(option, "=") - 1)
OptValue(option) == SubSeq(option, strchr(option, "=") + 1, Len(option))

ConfigKeys == { <<"A">>, <<"B">> }

\* CPLSetThreadLocalConfigOption(key, value): value None unsets the key
CPLSetThreadLocalConfigOption(cfg, key, value) == [cfg EXCEPT ![key] = value]

\* thread-local config a thread holds before its first bridged call: the
\* host has set A=0 with CPLSetThreadLocalConfigOption, B is unset
PriorConfig == [k \in ConfigKeys |-> IF k = <<"A">> THEN Some(<<"0">>) ELSE None]

---------------------------------------------------------------------------
(* cctx, godal.h *)

Contexts ==
    [ errMessage : {None}, handlerIdx : HandlerIdxs, failed : {0},
      configOptions : ConfigLists ]

NoContext ==
    [ errMessage |-> None, handlerIdx |-> 0, failed |-> 0, configOptions |-> None ]

\* the state of one thread: its context, CPL's thread-local error-handler
\* stack and config options, and its position in the bridged function
IdleThread(cfg) ==
    [ pc |-> "idle", fn |-> "none", ctx |-> NoContext, stack |-> <<>>,
      cfg |-> cfg, entryCfg |-> cfg, result |-> "void", status |-> 0,
      raised |-> <<>>, goLog |-> <<>>, stderr |-> <<>>, unhandled |-> <<>>,
      natives |-> <<>>, unwraps |-> 0, locals |-> <<>> ]

---------------------------------------------------------------------------
(* godalErrorHandler and CPL's dispatch *)

\* godalErrorHandler(e, n, msg), with ret the value goErrorHandler returns
godalErrorHandlerMissingNewline(T, e, n, msg, ret) ==
    LET c == T.ctx IN
    IF c.handlerIdx # 0
    THEN [T EXCEPT !.goLog = Append(@, [id |-> c.handlerIdx, e |-> e, n |-> n,
                                        msg |-> msg, ret |-> ret]),
                   !.ctx.failed = IF ret # 0 /\ c.failed = 0 THEN 1 ELSE @]
    ELSE IF e < CE_Warning
    THEN [T EXCEPT !.stderr = Append(@, msg)]
    ELSE IF c.errMessage = None
    THEN [T EXCEPT !.ctx.errMessage = Some(msg)]
    ELSE [T EXCEPT !.ctx.errMessage = Some(c.errMessage[1] \o msg)]

godalErrorHandlerFiltersLogger(T, e, n, msg, ret) ==
    LET c == T.ctx IN
    IF e < CE_Warning
    THEN [T EXCEPT !.stderr = Append(@, msg)]
    ELSE IF c.handlerIdx # 0
    THEN [T EXCEPT !.goLog = Append(@, [id |-> c.handlerIdx, e |-> e, n |-> n,
                                        msg |-> msg, ret |-> ret]),
                   !.ctx.failed = IF ret # 0 /\ c.failed = 0 THEN 1 ELSE @]
    ELSE IF c.errMessage = None
    THEN [T EXCEPT !.ctx.errMessage = Some(msg)]
    ELSE [T EXCEPT !.ctx.errMessage = Some(c.errMessage[1] \o "\n" \o msg)]

godalErrorHandler(T, e, n, msg, ret) ==
    LET c == T.ctx IN
    IF c.handlerIdx # 0
    THEN [T EXCEPT !.goLog = Append(@, [id |-> c.handlerIdx, e |-> e, n |-> n,
                                        msg |-> msg, ret |-> ret]),
                   !.ctx.failed = IF ret # 0 /\ c.failed = 0 THEN 1 ELSE @]
    ELSE IF e < CE_Warning
    THEN [T EXCEPT !.stderr = Append(@, msg)]
    ELSE IF c.errMessage = None
    THEN [T EXCEPT !.ctx.errMessage = Some(msg)]
    ELSE [T EXCEPT !.ctx.errMessage = Some(c.errMessage[1] \o "\n" \o msg)]

\* CPLError(e, n, msg): the diagnostic goes to the handler on top of the
\* thread's stack, or to CPL's default handler when the stack is empty
CPLError(T, e, n, msg, ret) ==
    LET R == [T EXCEPT !.raised = Append(@, [e |-> e, n |-> n, msg |-> msg])] IN
    IF R.stack = <<>>
    THEN [R EXCEPT !.unhandled = Append(@, msg)]
    ELSE godalErrorHandler(R, e, n, msg, ret)

---------------------------------------------------------------------------
(* godalWrap / godalUnwrap *)

RECURSIVE SetOptions(_, _, _)
SetOptions(cfg, options, i) ==
    IF i > Len(options) THEN cfg
    ELSE LET option == options[i] IN
         IF strchr(option, "=") # 0
         THEN SetOptions(CPLSetThreadLocalConfigOption(
                             cfg, OptKey(option), Some(OptValue(option))),
                         options, i + 1)
         ELSE SetOptions(cfg, options, i + 1)

RECURSIVE UnsetOptions(_, _, _)
UnsetOptions(cfg, options, i) ==
    IF i > Len(options) THEN cfg
    ELSE LET option == options[i] IN
         IF strchr(option, "=") # 0
         THEN UnsetOptions(CPLSetThreadLocalConfigOption(cfg, OptKey(option), None),
                           options, i + 1)
         ELSE UnsetOptions(cfg, options, i + 1)

godalWrap(T) ==
    [T EXCEPT !.stack = Append(@, "ctx"),
              !.cfg = IF T.ctx.configOptions # None
                      THEN SetOptions(@, T.ctx.configOptions[1], 1)
                      ELSE @]

godalUnwrapRestores(T) ==
    [T EXCEPT !.stack = SubSeq(@, 1, Len(@) - 1),
              !.unwraps = @ + 1,
              !.cfg = T.entryCfg]

godalUnwrap(T) ==
    [T EXCEPT !.stack = SubSeq(@, 1, Len(@) - 1),
              !.unwraps = @ + 1,
              !.cfg = IF T.ctx.configOptions # None
                      THEN UnsetOptions(@, T.ctx.configOptions[1], 1)
                      ELSE @]

---------------------------------------------------------------------------
(* failed / forceError / forceCPLError / forceOGRError *)

failed(T) == IF T.ctx.errMessage # None \/ T.ctx.failed # 0 THEN 1 ELSE 0

forceError(T, ret) ==
    IF T.ctx.errMessage = None /\ T.ctx.failed = 0
    THEN CPLError(T, CE_Failure, CPLE_AppDefined, "unknown error", ret)
    ELSE T

forceCPLError(T, err, ret) ==
    IF T.ctx.errMessage = None /\ T.ctx.failed = 0
    THEN CPLError(T, CE_Failure, CPLE_AppDefined,
                  "unknown cpl error " \o ToString(err), ret)
    ELSE T

forceOGRError(T, err, ret) ==
    IF T.ctx.errMessage = None /\ T.ctx.failed = 0
    THEN CPLError(T, CE_Failure, CPLE_AppDefined,
                  "unknown ogr error " \o ToString(err), ret)
    ELSE T

---------------------------------------------------------------------------
(* The bridged functions.  A function is entered (godalWrap, then its first *)
(* native call starts), the native library raises diagnostics while the     *)
(* thread is inside a native call, and an action per function body takes    *)
(* the native call's return value to the function's return.                 *)

\* GDALDatasetH/OGRGeometryH/... f(ctx, ...) { godalWrap; ret = native(...);
\* if (ret == nullptr) forceError; godalUnwrap; return ret; }
HandleFns ==
    { "godalOpen", "godalCreate" }
\* godalCreate*SpatialRef
SpatialRefFns ==
    { "godalCreateWKTSpatialRef", "godalCreateEPSGSpatialRef" }
\* ptr = native(...); if (!ptr) forceError; if (failed && ptr) { free; ptr = 0 }
CheckedPtrFns ==
    { "godalNewGeometryFromGeoJSON", "godalVSIOpen" }
\* gret = native(..., &ptr); if (gret) forceOGRError; else if (!ptr) forceError;
\* if (failed && ptr) { free; ptr = 0 }
CheckedOGRPtrFns ==
    { "godalNewGeometryFromWKT", "godalExportGeometryWKT" }
\* opts = *OptionsNew(switches); if (failed) {...}; ret = utility(...)
UtilityFns ==
    { "godalTranslate", "godalDatasetWarp", "godalDatasetWarpInto",
      "godalDatasetVectorTranslate", "godalRasterize", "godalBuildVRT" }
\* void f(ctx, ...) { godalWrap; ret = native(...); if (ret != 0) forceCPLError; godalUnwrap; }
StatusCPLFns ==
    { "godalSetMetadataItem" }
\* the same with an OGRErr and forceOGRError
StatusOGRFns == { "godalValidateSpatialRef" }
MaskBandFns == { "godalCreateMaskBand", "godalCreateDatasetMaskBand" }
\* the functions that take no context and never call godalWrap
NoCtxFns == { "godalBandOverviews", "godalRasterBands", "godalVectorLayers" }

\* functions whose first statement is godalWrap(ctx)
WrappedFns ==
    HandleFns \cup SpatialRefFns \cup CheckedPtrFns \cup CheckedOGRPtrFns
    \cup UtilityFns \cup StatusCPLFns \cup StatusOGRFns \cup MaskBandFns
    \cup { "godalExportGeometryWKB", "godalSetProjection",
           "test_godal_error_handling" }

\* functions that return a handle or a buffer as their primary result
ResultFns ==
    HandleFns \cup SpatialRefFns \cup CheckedPtrFns \cup CheckedOGRPtrFns
    \cup (UtilityFns \ {"godalDatasetWarpInto"}) \cup MaskBandFns
    \cup { "godalExportGeometryWKB" }

\* the native call a function makes first
FirstNative(f) ==
    CASE f = "godalOpen" -> "GDALOpenEx"
      [] f = "godalCreate" -> "GDALCreate"
      [] f = "godalCreateWKTSpatialRef" -> "OSRImportFromWkt"
      [] f = "godalCreateEPSGSpatialRef" -> "OSRImportFromEPSG"
      [] f = "godalNewGeometryFromGeoJSON" -> "OGR_G_CreateGeometryFromJson"
      [] f = "godalVSIOpen" -> "VSIFOpenExL"
      [] f = "godalNewGeometryFromWKT" -> "OGR_G_CreateFromWkt"
      [] f = "godalExportGeometryWKT" -> "OGR_G_ExportToWkt"
      [] f = "godalTranslate" -> "GDALTranslateOptionsNew"
      [] f \in {"godalDatasetWarp", "godalDatasetWarpInto"} -> "GDALWarpAppOptionsNew"
      [] f = "godalDatasetVectorTranslate" -> "GDALVectorTranslateOptionsNew"
      [] f = "godalRasterize" -> "GDALRasterizeOptionsNew"
      [] f = "godalBuildVRT" -> "GDALBuildVRTOptionsNew"
      [] f = "godalSetMetadataItem" -> "GDALSetMetadataItem"
      [] f = "godalValidateSpatialRef" -> "OSRValidate"
      [] f = "godalCreateMaskBand" -> "GDALCreateMaskBand"
      [] f = "godalCreateDatasetMaskBand" -> "GDALGetRasterCount"
      [] f = "godalExportGeometryWKB" -> "OGR_G_WkbSize"
      [] f = "godalBandOverviews" -> "GDALGetOverviewCount"
      [] f = "godalRasterBands" -> "GDALGetRasterCount"
      [] f = "godalVectorLayers" -> "GDALDatasetGetLayerCount"
      [] OTHER -> "none"

\* the utility a *Translate/Warp/Rasterize/BuildVRT function runs
UtilityOf(f) ==
    CASE f = "godalTranslate" -> "GDALTranslate"
      [] f \in {"godalDatasetWarp", "godalDatasetWarpInto"} -> "GDALWarp"
      [] f = "godalDatasetVectorTranslate" -> "GDALVectorTranslate"
      [] f = "godalRasterize" -> "GDALRasterize"
      [] OTHER -> "GDALBuildVRT"

NativePcs == { "native1", "native2", "native3" }

InNative(T) == T.pc \in NativePcs

\* the thread calls into the native library; the call is recorded with
\* whether a handler of the bridge is installed at that moment
CallNative(T, name, label) ==
    [T EXCEPT !.pc = label,
              !.natives = Append(@, [name |-> name, installed |-> T.stack # <<>>])]

\* a native call that returns at once (a free or destroy)
NoteNative(T, name) ==
    [T EXCEPT !.natives = Append(@, [name |-> name, installed |-> T.stack # <<>>])]

Done(T, res) == [T EXCEPT !.pc = "done", !.result = res]

Pointers == { "null", "obj" }

SetThreadSharedConfig(t, T) ==
    /\ th' = [u \in Threads |-> IF u = t THEN T ELSE [th[u] EXCEPT !.cfg = T.cfg]]
    /\ UNCHANGED <<vsi, rmr, fm>>

\* a step of thread t: the handler stack and the config options it writes
\* are the thread's own
SetThread(t, T) ==
    /\ th' = [th EXCEPT ![t] = T]
    /\ UNCHANGED <<vsi, rmr, fm>>

\* entry of a function that takes a context: godalWrap(ctx), then the first call
Enter(t, f, c) ==
    /\ th[t].pc = "idle"
    /\ f \in WrappedFns \ {"godalSetProjection", "test_godal_error_handling"}
    /\ c \in Contexts
    /\ LET T0 == [IdleThread(th[t].cfg) EXCEPT !.fn = f, !.ctx = c]
       IN SetThread(t, CallNative(godalWrap(T0), FirstNative(f), "native1"))

\* entry of godalBandOverviews / godalRasterBands / godalVectorLayers
EnterNoCtx(t, f) ==
    /\ th[t].pc = "idle"
    /\ f \in NoCtxFns
    /\ LET T0 == [IdleThread(th[t].cfg) EXCEPT !.fn = f]
       IN SetThread(t, CallNative(T0, FirstNative(f), "native1"))

\* the native library raises a diagnostic (CPLError/CPLDebug) during a call
NativeRaise(t, e, msg, lr) ==
    /\ InNative(th[t])
    /\ Len(th[t].raised) < MaxDiag
    /\ SetThread(t, CPLError(th[t], e, CPLE_AppDefined, msg, lr))

godalOpen(t, ret, lr) ==
    /\ th[t].pc = "native1"
    /\ th[t].fn \in HandleFns
    /\ LET T1 == IF ret = "null" THEN forceError(th[t], lr) ELSE th[t]
       IN SetThread(t, Done(godalUnwrap(T1), ret))

godalCreateWKTSpatialRef(t, gret, lr) ==
    /\ th[t].pc = "native1"
    /\ th[t].fn \in SpatialRefFns
    /\ LET T1 == IF gret # 0 THEN forceOGRError(th[t], gret, lr) ELSE th[t]
           T2 == godalUnwrap(T1)
       IN IF failed(T2) = 1
          THEN SetThread(t, Done(NoteNative(T2, "OSRDestroySpatialReference"), "null"))
          ELSE SetThread(t, Done(T2, "obj"))

godalNewGeometryFromGeoJSON(t, gptr, lr) ==
    /\ th[t].pc = "native1"
    /\ th[t].fn \in CheckedPtrFns
    /\ LET T1 == IF gptr = "null" THEN forceError(th[t], lr) ELSE th[t]
       IN IF failed(T1) = 1 /\ gptr # "null"
          THEN SetThread(t, Done(godalUnwrap(NoteNative(T1, "destroy")), "null"))
          ELSE SetThread(t, Done(godalUnwrap(T1), gptr))

godalNewGeometryFromWKT(t, gret, gptr, lr) ==
    /\ th[t].pc = "native1"
    /\ th[t].fn \in CheckedOGRPtrFns
    /\ LET T1 == IF gret # OGRERR_NONE THEN forceOGRError(th[t], gret, lr)
                 ELSE IF gptr = "null" THEN forceError(th[t], lr)
                 ELSE th[t]
       IN IF failed(T1) = 1 /\ gptr # "null"
          THEN SetThread(t, Done(godalUnwrap(NoteNative(T1, "destroy")), "null"))
          ELSE SetThread(t, Done(godalUnwrap(T1), gptr))

\* godalExportGeometryWKB, up to the call of OGR_G_ExportToIsoWkb
godalExportGeometryWKB_size(t, wkbLen) ==
    /\ th[t].pc = "native1"
    /\ th[t].fn = "godalExportGeometryWKB"
    /\ IF wkbLen = 0
       THEN SetThread(t, Done(godalUnwrap(th[t]), "null"))
       ELSE SetThread(t, CallNative(th[t], "OGR_G_ExportToIsoWkb", "native2"))

\* godalExportGeometryWKB, from the return of OGR_G_ExportToIsoWkb
godalExportGeometryWKB(t, gret, lr) ==
    /\ th[t].pc = "native2"
    /\ th[t].fn = "godalExportGeometryWKB"
    /\ IF gret # 0
       THEN SetThread(t, Done(godalUnwrap(forceOGRError(th[t], gret, lr)), "null"))
       ELSE SetThread(t, Done(godalUnwrap(th[t]), "obj"))

\* godalCreateDatasetMaskBand, up to the call of GDALCreateDatasetMaskBand
godalCreateDatasetMaskBand_count(t, count, lr) ==
    /\ th[t].pc = "native1"
    /\ th[t].fn = "godalCreateDatasetMaskBand"
    /\ IF count = 0
       THEN SetThread(t, Done(godalUnwrap(
                CPLError(th[t], CE_Failure, CPLE_AppDefined,
                         "cannot create mask band on dataset with no bands", lr)),
                "null"))
       ELSE SetThread(t, CallNative(th[t], "GDALCreateDatasetMaskBand", "native2"))

\* godalCreateMaskBand / godalCreateDatasetMaskBand, from the return of
\* GDALCreate(Dataset)MaskBand to the call of GDALGetMaskBand
godalCreateMaskBand_created(t, ret, lr) ==
    /\ \/ th[t].pc = "native1" /\ th[t].fn = "godalCreateMaskBand"
       \/ th[t].pc = "native2" /\ th[t].fn = "godalCreateDatasetMaskBand"
    /\ IF ret # 0
       THEN SetThread(t, Done(godalUnwrap(forceCPLError(th[t], ret, lr)), "null"))
       ELSE SetThread(t, CallNative(th[t], "GDALGetMaskBand", "native3"))

godalCreateMaskBand(t, mbnd, lr) ==
    /\ th[t].pc = "native3"
    /\ th[t].fn \in MaskBandFns
    /\ LET T1 == IF mbnd = "null" THEN forceError(th[t], lr) ELSE th[t]
       IN SetThread(t, Done(godalUnwrap(T1), mbnd))

\* godalTranslate and the other utilities, from the return of *OptionsNew
OptionsFailedOnMessageOnly(T) == T.ctx.errMessage # None

\* if (failed(ctx)) after the *OptionsNew call
OptionsFailed(T) == failed(T) = 1

godalTranslate_options(t) ==
    /\ th[t].pc = "native1"
    /\ th[t].fn \in UtilityFns
    /\ LET T1 == [th[t] EXCEPT !.locals = [ failedAfterOptions |-> failed(th[t]) ]]
       IN IF OptionsFailed(T1)
          THEN SetThread(t, Done(godalUnwrap(NoteNative(T1, "OptionsFree")),
                                 IF T1.fn = "godalDatasetWarpInto" THEN "void" ELSE "null"))
          ELSE SetThread(t, CallNative(T1, UtilityOf(T1.fn), "native2"))

\* godalTranslate and the other utilities, from the return of the utility
godalTranslate(t, ret, usageErr, lr) ==
    /\ th[t].pc = "native2"
    /\ th[t].fn \in UtilityFns
    /\ LET T1 == NoteNative(th[t], "OptionsFree")
           T2 == IF ret = "null" \/ usageErr # 0 THEN forceError(T1, lr) ELSE T1
       IN SetThread(t, Done(godalUnwrap(T2),
                            IF th[t].fn = "godalDatasetWarpInto" THEN "void" ELSE ret))

godalSetMetadataItem(t, ret, lr) ==
    /\ th[t].pc = "native1"
    /\ th[t].fn \in StatusCPLFns
    /\ LET T1 == IF ret # 0 THEN forceCPLError(th[t], ret, lr) ELSE th[t]
       IN SetThread(t, Done(godalUnwrap(T1), "void"))

godalValidateSpatialRef(t, gret, lr) ==
    /\ th[t].pc = "native1"
    /\ th[t].fn \in StatusOGRFns
    /\ LET T1 == IF gret # 0 THEN forceOGRError(th[t], gret, lr) ELSE th[t]
       IN SetThread(t, Done(godalUnwrap(T1), "void"))

\* godalSetProjection: entry; wktEmpty is (wkt == nullptr || *wkt == 0)
godalSetProjection_enter(t, c, wktEmpty) ==
    /\ th[t].pc = "idle"
    /\ c \in Contexts
    /\ LET T0 == [IdleThread(th[t].cfg) EXCEPT !.fn = "godalSetProjection", !.ctx = c]
       IN IF wktEmpty
          THEN SetThread(t, CallNative(godalWrap(T0), "GDALSetSpatialRef", "native2"))
          ELSE SetThread(t, CallNative(godalWrap(T0), "OSRSetFromUserInput", "native1"))

\* godalSetProjection, from the return of OSRSetFromUserInput
godalSetProjection_parsed(t, gret, lr) ==
    /\ th[t].pc = "native1"
    /\ th[t].fn = "godalSetProjection"
    /\ IF gret # OGRERR_NONE \/ failed(th[t]) = 1
       THEN SetThread(t, Done(NoteNative(godalUnwrap(forceOGRError(th[t], gret, lr)),
                                         "OSRDestroySpatialReference"), "void"))
       ELSE SetThread(t, CallNative([th[t] EXCEPT !.status = 1],
                                    "GDALSetSpatialRef", "native2"))

\* godalSetProjection, from the return of GDALSetSpatialRef (both branches)
godalSetProjection(t, ret, lr) ==
    /\ th[t].pc = "native2"
    /\ th[t].fn = "godalSetProjection"
    /\ LET T1 == IF ret # 0 THEN forceCPLError(th[t], ret, lr) ELSE th[t]
           T2 == godalUnwrap(T1)
       IN IF th[t].status = 1
          THEN SetThread(t, Done(NoteNative(T2, "OSRDestroySpatialReference"), "void"))
          ELSE SetThread(t, Done(T2, "void"))

\* godalBandOverviews / godalRasterBands / godalVectorLayers: count == 0
\* returns nullptr, otherwise the array is filled by count native calls
godalRasterBands(t, count) ==
    /\ th[t].pc = "native1"
    /\ th[t].fn \in NoCtxFns
    /\ IF count = 0
       THEN SetThread(t, Done(th[t], "null"))
       ELSE SetThread(t, Done(th[t], "obj"))

\* test_godal_error_handling; debugOn is whether CPLDebug emits (CPL_DEBUG)
test_godal_error_handling(t, c, debugOn, lr1, lr2, lr3) ==
    /\ th[t].pc = "idle"
    /\ c \in Contexts
    /\ LET T0 == godalWrap([IdleThread(th[t].cfg) EXCEPT
                                !.fn = "test_godal_error_handling", !.ctx = c])
           T1 == IF debugOn
                 THEN CPLError(T0, CE_Debug, CPLE_AppDefined,
                               "godal: this is a debug message", lr1)
                 ELSE T0
           T2 == CPLError(T1, CE_Warning, CPLE_AppDefined,
                          "this is a warning message", lr2)
           T3 == CPLError(T2, CE_Failure, CPLE_AppDefined,
                          "this is a failure message", lr3)
       IN SetThread(t, Done(godalUnwrap(T3), "void"))

\* bands of a dataset
MaxBands == 2

OGRNullFID == -1
\* what OGR_F_GetFID may return
FIDs == { OGRNullFID, 0, 7 }

godalLayerDeleteFeature_enter(t, c) ==
    /\ th[t].pc = "idle"
    /\ c \in Contexts
    /\ LET T0 == [IdleThread(th[t].cfg) EXCEPT !.fn = "godalLayerDeleteFeature", !.ctx = c]
       IN SetThread(t, CallNative(godalWrap(T0), "OGR_F_GetFID", "native1"))

IsNullFIDWhenZero(fid) == fid = 0

\* if (fid == OGRNullFID)
IsNullFID(fid) == fid = OGRNullFID

\* godalLayerDeleteFeature, from the return of OGR_F_GetFID
godalLayerDeleteFeature_fid(t, fid, lr) ==
    /\ th[t].pc = "native1"
    /\ th[t].fn = "godalLayerDeleteFeature"
    /\ LET T1 == [th[t] EXCEPT !.locals = [ fid |-> fid ]]
       IN IF IsNullFID(fid)
          THEN SetThread(t, Done(godalUnwrap(CPLError(T1, CE_Failure, CPLE_AppDefined,
                                     "cannot delete feature with no FID", lr)), "void"))
          ELSE SetThread(t, CallNative(T1, "OGR_L_DeleteFeature", "native2"))

\* godalLayerDeleteFeature, from the return of OGR_L_DeleteFeature
godalLayerDeleteFeature(t, gret, lr) ==
    /\ th[t].pc = "native2"
    /\ th[t].fn = "godalLayerDeleteFeature"
    /\ LET T1 == IF gret # 0 THEN forceOGRError(th[t], gret, lr) ELSE th[t]
       IN SetThread(t, Done(godalUnwrap(T1), "void"))

godalSetDatasetNoDataValue_enter(t, c) ==
    /\ th[t].pc = "idle"
    /\ c \in Contexts
    /\ LET T0 == [IdleThread(th[t].cfg) EXCEPT !.fn = "godalSetDatasetNoDataValue", !.ctx = c]
       IN SetThread(t, CallNative(godalWrap(T0), "GDALGetRasterCount", "native1"))

\* the call of GDALSetRasterNoDataValue(GDALGetRasterBand(ds, i), nd)
CallBandSetter(T, i) ==
    [T EXCEPT !.pc = "native2",
              !.natives = Append(@, [ name |-> "GDALSetRasterNoDataValue",
                                      installed |-> T.stack # <<>>, band |-> i ])]

HasNoBandsWhenNegative(count) == count < 0

\* if (count == 0)
HasNoBands(count) == count = 0

\* godalSetDatasetNoDataValue, from the return of GDALGetRasterCount
godalSetDatasetNoDataValue_count(t, count, lr) ==
    /\ th[t].pc = "native1"
    /\ th[t].fn = "godalSetDatasetNoDataValue"
    /\ LET T1 == [th[t] EXCEPT !.locals = [ count |-> count, i |-> 1, ret |-> CE_None,
                                         brs |-> <<>> ]]
       IN IF HasNoBands(count)
          THEN SetThread(t, Done(godalUnwrap(CPLError(T1, CE_Failure, CPLE_AppDefined,
                   "cannot set nodata value on dataset with no raster bands", lr)), "void"))
          ELSE IF 1 <= count
          THEN SetThread(t, CallBandSetter(T1, 1))
          ELSE SetThread(t, Done(godalUnwrap(T1), "void"))

FirstFailureIsLast(ret, br) == IF br # 0 THEN br ELSE ret

\* if (br != 0 && ret == 0) ret = br;
FirstFailure(ret, br) == IF br # 0 /\ ret = 0 THEN br ELSE ret

\* godalSetDatasetNoDataValue, from the return of GDALSetRasterNoDataValue
\* for band locals.i: the next band, or the end of the loop
\* (locals.brs keeps the statuses the setter returned so far)
godalSetDatasetNoDataValue(t, br, lr) ==
    /\ th[t].pc = "native2"
    /\ th[t].fn = "godalSetDatasetNoDataValue"
    /\ LET l == th[t].locals
           ret == FirstFailure(l.ret, br)
           T1 == [th[t] EXCEPT !.locals = [l EXCEPT !.ret = ret, !.i = l.i + 1,
                                                  !.brs = Append(@, br)]]
       IN IF l.i + 1 <= l.count
          THEN SetThread(t, CallBandSetter(T1, l.i + 1))
          ELSE LET T2 == IF ret # 0 THEN forceCPLError(T1, ret, lr) ELSE T1
               IN SetThread(t, Done(godalUnwrap(T2), "void"))

\* the caller takes the result and the context's error
Return(t) ==
    /\ th[t].pc = "done"
    /\ SetThread(t, IdleThread(th[t].cfg))

\* status codes a native call may return: CE_None, CE_Failure / OGRERR_NONE, OGRERR_FAILURE
CPLErrs == { 0, 3 }
OGRErrs == { 0, 6 }

\* the steps of thread t; each is tried only from the position it starts at
BridgeStep(t) ==
    \/ /\ th[t].pc = "idle"
       /\ \E f \in WrappedFns, c \in Contexts : Enter(t, f, c)
    \/ /\ th[t].pc = "idle"
       /\ \E f \in NoCtxFns : EnterNoCtx(t, f)
    \/ /\ th[t].pc = "idle"
       /\ \E c \in Contexts, wktEmpty \in BOOLEAN : godalSetProjection_enter(t, c, wktEmpty)
    \/ /\ th[t].pc = "idle"
       /\ \E c \in Contexts, debugOn \in BOOLEAN, lr1, lr2, lr3 \in LoggerRets :
             test_godal_error_handling(t, c, debugOn, lr1, lr2, lr3)
    \/ /\ InNative(th[t])
       /\ \E e \in Severities, msg \in Msgs, lr \in LoggerRets : NativeRaise(t, e, msg, lr)
    \/ /\ InNative(th[t])
       /\ \E ret \in Pointers, lr \in LoggerRets : godalOpen(t, ret, lr)
    \/ /\ InNative(th[t])
       /\ \E gret \in OGRErrs, lr \in LoggerRets : godalCreateWKTSpatialRef(t, gret, lr)
    \/ /\ InNative(th[t])
       /\ \E gptr \in Pointers, lr \in LoggerRets : godalNewGeometryFromGeoJSON(t, gptr, lr)
    \/ /\ InNative(th[t])
       /\ \E gret \in OGRErrs, gptr \in Pointers, lr \in LoggerRets :
             godalNewGeometryFromWKT(t, gret, gptr, lr)
    \/ /\ InNative(th[t])
       /\ \E wkbLen \in {0, 9} : godalExportGeometryWKB_size(t, wkbLen)
    \/ /\ InNative(th[t])
       /\ \E gret \in OGRErrs, lr \in LoggerRets : godalExportGeometryWKB(t, gret, lr)
    \/ /\ InNative(th[t])
       /\ \E count \in 0..1, lr \in LoggerRets : godalCreateDatasetMaskBand_count(t, count, lr)
    \/ /\ InNative(th[t])
       /\ \E ret \in CPLErrs, lr \in LoggerRets : godalCreateMaskBand_created(t, ret, lr)
    \/ /\ InNative(th[t])
       /\ \E mbnd \in Pointers, lr \in LoggerRets : godalCreateMaskBand(t, mbnd, lr)
    \/ /\ InNative(th[t])
       /\ godalTranslate_options(t)
    \/ /\ InNative(th[t])
       /\ \E ret \in Pointers, usageErr \in 0..1, lr \in LoggerRets :
             godalTranslate(t, ret, usageErr, lr)
    \/ /\ InNative(th[t])
       /\ \E ret \in CPLErrs, lr \in LoggerRets : godalSetMetadataItem(t, ret, lr)
    \/ /\ InNative(th[t])
       /\ \E gret \in OGRErrs, lr \in LoggerRets : godalValidateSpatialRef(t, gret, lr)
    \/ /\ InNative(th[t])
       /\ \E gret \in OGRErrs, lr \in LoggerRets : godalSetProjection_parsed(t, gret, lr)
    \/ /\ InNative(th[t])
       /\ \E ret \in CPLErrs, lr \in LoggerRets : godalSetProjection(t, ret, lr)
    \/ /\ InNative(th[t])
       /\ \E count \in 0..2 : godalRasterBands(t, count)
    \/ Return(t)

---------------------------------------------------------------------------
(* Virtual filesystem bridge: VSIGoFilesystemHandler and VSIGoHandle *)

\* largest size the Go size callback reports
MaxFileSize == 2
\* largest buffer/cache size a handler is created with
MaxBufferSize == 1

ENOENT == 2
EIO == 5

\* pszAccess, a C string
AccessModes ==
    { <<"r">>, <<"r", "b">>, <<"w">>, <<"w", "b">>, <<"r", "+">>,
      <<"a">>, <<"a", "b">>, <<"a", "+">> }

\* what _gogdalSizeCallback may answer: a size or -1, and an error text or none
SizeAnswers == [ s : {-1} \cup 0..MaxFileSize, err : { None, Some("no such key") } ]

Filenames == { "k" }

VSIGoHandleCursorAtEnd(filename, size) ==
    [ m_filename |-> filename, m_cur |-> size, m_eof |-> 0, m_size |-> size ]

VSIGoHandle(filename, size) ==
    [ m_filename |-> filename, m_cur |-> 0, m_eof |-> 0, m_size |-> size ]

VSIGoFilesystemHandlerNoClamp(bufferSize, cacheSize) ==
    [ m_buffer |-> bufferSize, m_cache |-> cacheSize ]

VSIGoFilesystemHandler(bufferSize, cacheSize) ==
    [ m_buffer |-> bufferSize,
      m_cache |-> IF cacheSize < bufferSize THEN bufferSize ELSE cacheSize ]

\* VSICreateCachedFile(handle, buffer, cache): the native caching decorator
VSICreateCachedFile(handle, buffer, cache) ==
    [ base |-> handle, wrapped |-> Some([ chunk |-> buffer, cache |-> cache ]) ]

RawFile(handle) == [ base |-> handle, wrapped |-> None ]

\* the bridge's state before an operation: per-operation records are reset
VsiBefore(V) ==
    [V EXCEPT !.diags = <<>>, !.vsiErrors = <<>>, !.cbLog = <<>>, !.constructed = 0]

OpenSetsErrorAlways(err, bSetError) == err # None

\* if (err != nullptr && bSetError) VSIError(VSIE_FileError, "%s", err)
OpenSetsError(err, bSetError) == err # None /\ bSetError

\* VSIGoFilesystemHandler::Open; answer is what the size callback returns
\* if it is called
Open(V, pszFilename, pszAccess, bSetError, answer) ==
    LET B == VsiBefore(V)
        call == [ op |-> "Open", access |-> pszAccess, bSetError |-> bSetError,
                  answer |-> answer ]
    IN
    IF strchr(pszAccess, "w") # 0 \/ strchr(pszAccess, "+") # 0
    THEN [B EXCEPT !.diags = Append(@, [e |-> CE_Failure,
                                        msg |-> "Only read-only mode is supported"]),
                   !.last = call, !.ret = "null"]
    ELSE LET C == [B EXCEPT !.cbLog = Append(@, [cb |-> "size", key |-> pszFilename]),
                            !.last = call]
         IN IF answer.s = -1
            THEN [C EXCEPT !.vsiErrors = IF OpenSetsError(answer.err, bSetError)
                                         THEN Append(@, answer.err[1]) ELSE @,
                           !.errno = ENOENT,
                           !.ret = "null"]
            ELSE IF V.handler.m_buffer = 0
            THEN [C EXCEPT !.file = Some(RawFile(VSIGoHandle(pszFilename, answer.s))),
                           !.constructed = 1,
                           !.ret = "handle"]
            ELSE [C EXCEPT !.file = Some(VSICreateCachedFile(
                                             VSIGoHandle(pszFilename, answer.s),
                                             V.handler.m_buffer, V.handler.m_cache)),
                           !.constructed = 1,
                           !.ret = "handle"]

\* VSIGoHandle::Close, after which the native library deletes the handle
Close(V) ==
    [VsiBefore(V) EXCEPT !.file = None, !.last = [ op |-> "Close" ], !.ret = "0"]

VsiOpen(pszFilename, pszAccess, bSetError, answer) ==
    /\ vsi.file = None
    /\ vsi' = Open(vsi, pszFilename, pszAccess, bSetError, answer)
    /\ UNCHANGED <<th, rmr, fm>>

VsiClose ==
    /\ vsi.file # None
    /\ vsi' = Close(vsi)
    /\ UNCHANGED <<th, rmr, fm>>

\* the bridge with a handler newly created with (bufferSize, cacheSize), which
\* args keeps
VsiInitial(bufferSize, cacheSize) ==
    [ handler |-> VSIGoFilesystemHandler(bufferSize, cacheSize), file |-> None,
      args |-> [ bufferSize |-> bufferSize, cacheSize |-> cacheSize ],
      errno |-> 0, last |-> [ op |-> "none" ], ret |-> "none",
      diags |-> <<>>, vsiErrors |-> <<>>, cbLog |-> <<>>, constructed |-> 0 ]

---------------------------------------------------------------------------
(* VSIGoHandle::ReadMultiRange *)

\* ranges in one batch
MaxRanges == 3

\* panOffsets and panSizes are drawn from these
RangeOffsets == 0..3
RangeSizes == {1, 2}
\* the byte of the caller's file at an offset
SourceByte(offset) == 10 + offset
\* what a fresh new char[n] may hold: the heap is either zeroed or holds
\* stale data, the byte at heap position p being base + step * p
GarbagePatterns == { [ base |-> 0, step |-> 0 ], [ base |-> 200, step |-> 1 ] }
GarbageByte(garbage, p) == garbage.base + garbage.step * p
\* what _gogdalMultiReadCallback may answer; it fills the buffers it is
\* given when it reports success
MultiReadAnswers == [ ret : {0, -1}, err : { None, Some("read failed") } ]

RECURSIVE SumSizes(_, _)
SumSizes(sizes, n) == IF n = 0 THEN 0 ELSE sizes[n] + SumSizes(sizes, n - 1)

RECURSIVE CountLoopMergesOverlaps(_, _, _, _, _)
CountLoopMergesOverlaps(nRanges, panOffsets, panSizes, iRange, nMergedRanges) ==
    IF iRange < nRanges - 1
    THEN CountLoopMergesOverlaps(nRanges, panOffsets, panSizes, iRange + 1,
                   IF panOffsets[iRange + 1] + panSizes[iRange + 1] < panOffsets[iRange + 2]
                   THEN nMergedRanges + 1 ELSE nMergedRanges)
    ELSE nMergedRanges

\* the first loop: for (iRange = 0; iRange < nRanges - 1; iRange++) if
\* (panOffsets[iRange] + panSizes[iRange] != panOffsets[iRange + 1]) nMergedRanges++
\* (arrays are 1-based here: element iRange of the code is iRange + 1)
RECURSIVE CountLoop(_, _, _, _, _)
CountLoop(nRanges, panOffsets, panSizes, iRange, nMergedRanges) ==
    IF iRange < nRanges - 1
    THEN CountLoop(nRanges, panOffsets, panSizes, iRange + 1,
                   IF panOffsets[iRange + 1] + panSizes[iRange + 1] # panOffsets[iRange + 2]
                   THEN nMergedRanges + 1 ELSE nMergedRanges)
    ELSE nMergedRanges

CountMergedRangesFromZero(nRanges, panOffsets, panSizes) ==
    CountLoop(nRanges, panOffsets, panSizes, 0, 0)

CountMergedRanges(nRanges, panOffsets, panSizes) ==
    CountLoop(nRanges, panOffsets, panSizes, 0, 1)

\* the second loop, which builds mOffsets and mSizes; m.curRange is 0-based,
\* and m.written holds the values of curRange the merged arrays were written at
RECURSIVE MergeLoop(_, _, _, _, _)
MergeLoop(nRanges, panOffsets, panSizes, iRange, m) ==
    IF iRange < nRanges - 1
    THEN LET next ==
                 IF panOffsets[iRange + 1] + panSizes[iRange + 1] = panOffsets[iRange + 2]
                 THEN [m EXCEPT !.mSizes[m.curRange + 1] = @ + panSizes[iRange + 2]]
                 ELSE [ curRange |-> m.curRange + 1,
                        mSizes |-> Append(m.mSizes, panSizes[iRange + 2]),
                        mOffsets |-> Append(m.mOffsets, panOffsets[iRange + 2]),
                        written |-> m.written \cup { m.curRange + 1 } ]
         IN MergeLoop(nRanges, panOffsets, panSizes, iRange + 1, next)
    ELSE m

MergeRanges(nRanges, panOffsets, panSizes) ==
    MergeLoop(nRanges, panOffsets, panSizes, 0,
              [ curRange |-> 0, mSizes |-> <<panSizes[1]>>, mOffsets |-> <<panOffsets[1]>>,
                written |-> {0} ])

\* mData[r] = new char[mSizes[r]]: uninitialised memory, taken from garbage
RECURSIVE AllocateRuns(_, _, _)
AllocateRuns(mSizes, garbage, r) ==
    IF r > Len(mSizes) THEN <<>>
    ELSE LET start == SumSizes(mSizes, r - 1) IN
         << [j \in 1..mSizes[r] |-> GarbageByte(garbage, start + j)] >>
             \o AllocateRuns(mSizes, garbage, r + 1)

\* the buffers a successful callback leaves: of the n buffers it is given,
\* buffer i holds the file's bytes [offsets[i], offsets[i] + sizes[i])
CallbackFill(n, ppData, offsets, sizes) ==
    [i \in DOMAIN ppData |->
        IF i <= n THEN [j \in 1..sizes[i] |-> SourceByte(offsets[i] + j - 1)]
        ELSE ppData[i]]

\* memcpy(dst, src + from, n), from 0-based
Slice(src, from, n) == [j \in 1..n |-> src[from + j]]

\* the third loop, which copies the merged buffers back; d.curRange 0-based
RECURSIVE DemuxLoopNoAdvance(_, _, _, _, _, _)
DemuxLoopNoAdvance(nRanges, panOffsets, panSizes, mData, iRange, d) ==
    IF iRange < nRanges - 1
    THEN LET next ==
                 IF panOffsets[iRange + 1] + panSizes[iRange + 1] = panOffsets[iRange + 2]
                 THEN [d EXCEPT !.ppData[iRange + 2] =
                                    Slice(mData[d.curRange + 1], d.curOffset, panSizes[iRange + 2])]
                 ELSE [ curRange |-> d.curRange + 1,
                        curOffset |-> panSizes[iRange + 2],
                        ppData |-> [d.ppData EXCEPT ![iRange + 2] =
                                       Slice(mData[d.curRange + 2], 0, panSizes[iRange + 2])] ]
         IN DemuxLoopNoAdvance(nRanges, panOffsets, panSizes, mData, iRange + 1, next)
    ELSE d

RECURSIVE DemuxLoop(_, _, _, _, _, _)
DemuxLoop(nRanges, panOffsets, panSizes, mData, iRange, d) ==
    IF iRange < nRanges - 1
    THEN LET next ==
                 IF panOffsets[iRange + 1] + panSizes[iRange + 1] = panOffsets[iRange + 2]
                 THEN [d EXCEPT !.ppData[iRange + 2] =
                                    Slice(mData[d.curRange + 1], d.curOffset, panSizes[iRange + 2]),
                                !.curOffset = @ + panSizes[iRange + 2]]
                 ELSE [ curRange |-> d.curRange + 1,
                        curOffset |-> panSizes[iRange + 2],
                        ppData |-> [d.ppData EXCEPT ![iRange + 2] =
                                       Slice(mData[d.curRange + 2], 0, panSizes[iRange + 2])] ]
         IN DemuxLoop(nRanges, panOffsets, panSizes, mData, iRange + 1, next)
    ELSE d

DemultiplexNoAdvance(nRanges, ppData, panOffsets, panSizes, mData) ==
    DemuxLoopNoAdvance(nRanges, panOffsets, panSizes, mData, 0,
              [ curRange |-> 0, curOffset |-> panSizes[1],
                ppData |-> [ppData EXCEPT ![1] = Slice(mData[1], 0, panSizes[1])] ]).ppData

Demultiplex(nRanges, ppData, panOffsets, panSizes, mData) ==
    DemuxLoop(nRanges, panOffsets, panSizes, mData, 0,
              [ curRange |-> 0, curOffset |-> panSizes[1],
                ppData |-> [ppData EXCEPT ![1] = Slice(mData[1], 0, panSizes[1])] ]).ppData

\* the elements of panOffsets, panSizes and ppData (0-based) that a loop
\* for (iRange = 0; iRange < nRanges - 1; iRange++) reading [iRange] and
\* [iRange + 1] reads
RECURSIVE LoopReads(_, _)
LoopReads(nRanges, iRange) ==
    IF iRange < nRanges - 1
    THEN { iRange, iRange + 1 } \cup LoopReads(nRanges, iRange + 1)
    ELSE {}

MultiReadRetIgnoresErr(answer) == answer.ret

\* what ReadMultiRange returns after the callback: if (err) ... return -1
\* (ret = -1 in the merge path), else the callback's own return value
MultiReadRet(answer) == IF answer.err # None THEN -1 ELSE answer.ret

\* VSIGoHandle::ReadMultiRange.  R is the record of the previous call, answer
\* what the callback answers, garbage the content of freshly allocated memory.
\* ppData, panOffsets and panSizes are the memory at the three pointers, of
\* which nRanges elements are the caller's arrays; reads and writes record
\* the elements of the caller's arrays that are read and the elements of the
\* merged arrays that are written (0-based)
ReadMultiRange(R, nRanges, ppData, panOffsets, panSizes, answer, garbage) ==
    LET nMergedRanges == CountMergedRanges(nRanges, panOffsets, panSizes)
        call == [ nRanges |-> nRanges, panOffsets |-> panOffsets, panSizes |-> panSizes,
                  ppData |-> ppData, answer |-> answer ]
        \* both paths hand the callback the caller's arrays
        cbCall == [ key |-> R.handle.m_filename, nRanges |-> nRanges, buffers |-> "ppData",
                    offsets |-> panOffsets, sizes |-> panSizes ]
        filled == IF answer.err = None /\ answer.ret = 0
                  THEN CallbackFill(nRanges, ppData, panOffsets, panSizes)
                  ELSE ppData
        failure == [ e |-> CE_Failure, msg |-> IF answer.err = None THEN "" ELSE answer.err[1] ]
    IN
    IF nMergedRanges = nRanges
    THEN [R EXCEPT !.call = Some(call), !.path = "fast", !.nMergedRanges = nMergedRanges,
                   !.cbCalls = <<cbCall>>, !.allocated = 0,
                   !.mOffsets = <<>>, !.mSizes = <<>>, !.mData = <<>>,
                   !.reads = LoopReads(nRanges, 0), !.writes = {},
                   !.ppData = filled,
                   !.diags = IF answer.err # None THEN <<failure>> ELSE <<>>,
                   !.errno = IF answer.err # None THEN EIO ELSE @,
                   !.ret = MultiReadRet(answer)]
    ELSE LET m == MergeRanges(nRanges, panOffsets, panSizes)
             mData == AllocateRuns(m.mSizes, garbage, 1)
         IN [R EXCEPT !.call = Some(call), !.path = "merge", !.nMergedRanges = nMergedRanges,
                      !.cbCalls = <<cbCall>>, !.allocated = Len(mData),
                      !.mOffsets = m.mOffsets, !.mSizes = m.mSizes, !.mData = mData,
                      !.reads = LoopReads(nRanges, 0) \cup {0}, !.writes = m.written,
                      !.ppData = IF answer.err = None
                                 THEN Demultiplex(nRanges, filled, panOffsets, panSizes, mData)
                                 ELSE filled,
                      !.diags = IF answer.err # None THEN <<failure>> ELSE <<>>,
                      !.errno = IF answer.err # None THEN EIO ELSE @,
                      !.ret = MultiReadRet(answer)]

RmrInitial ==
    [ handle |-> VSIGoHandle("k", MaxFileSize), call |-> None, path |-> "none",
      nMergedRanges |-> 0, cbCalls |-> <<>>, allocated |-> 0,
      mOffsets |-> <<>>, mSizes |-> <<>>, mData |-> <<>>, ppData |-> <<>>,
      reads |-> {}, writes |-> {},
      diags |-> <<>>, errno |-> 0, ret |-> 0 ]

\* the destination buffers as the caller hands them over: zeroed
ZeroBuffers(nRanges, panSizes) == [i \in 1..nRanges |-> [j \in 1..panSizes[i] |-> 0]]

RmrReadMultiRange(nRanges, panOffsets, panSizes, answer, garbage) ==
    /\ rmr.call = None
    /\ rmr' = ReadMultiRange(rmr, nRanges, ZeroBuffers(nRanges, panSizes),
                             panOffsets, panSizes, answer, garbage)
    /\ UNCHANGED <<th, vsi, fm>>

\* what may lie in memory where an empty array is pointed at
BeyondOffsets == { 0, 1 }
BeyondSizes == { 1, 2 }

\* ReadMultiRange with nRanges == 0: the caller's arrays are empty, and the
\* memory at the pointers, which is not the caller's, holds anything
RmrReadMultiRangeEmpty(beyondOffset, beyondSize, answer, garbage) ==
    /\ rmr.call = None
    /\ rmr' = ReadMultiRange(rmr, 0, ZeroBuffers(1, <<beyondSize>>),
                             <<beyondOffset>>, <<beyondSize>>, answer, garbage)
    /\ UNCHANGED <<th, vsi, fm>>

\* the native library takes the batch's result; errno stays as it is
RmrReturn ==
    /\ rmr.call # None
    /\ rmr' = [RmrInitial EXCEPT !.errno = rmr.errno]
    /\ UNCHANGED <<th, vsi, fm>>

---------------------------------------------------------------------------
(* VSIGoHandle::Seek / Tell / Eof / Read *)

\* nSize and nCount of a Read are drawn from 0..MaxElemSize and 0..MaxCount
MaxElemSize == 2
MaxCount == 2
\* nOffset of a Seek is drawn from 0..MaxSeekOffset
MaxSeekOffset == 2
\* Seek and Read are not explored once the cursor would pass this
MaxCursor == 4

SEEK_SET == 0
SEEK_CUR == 1
SEEK_END == 2
\* SEEK_SET, SEEK_CUR, SEEK_END and a value that is none of them
Whences == { SEEK_SET, SEEK_CUR, SEEK_END, 3 }

\* what _gogdalReadCallback may answer to a request of n bytes: the number
\* of bytes it filled, and an error text or none
ReadAnswers(n) == [ read : 0..n, err : { None, Some("read failed") } ]

\* the VSIGoHandle behind an open file, and the file with its handle replaced
HandleOf(V) == V.file[1].base
WithHandle(V, h) == [V EXCEPT !.file = Some([V.file[1] EXCEPT !.base = h])]

SeekToEndPlusOffset(h, nOffset, nWhence) ==
    IF nWhence = SEEK_SET THEN nOffset
    ELSE IF nWhence = SEEK_CUR THEN h.m_cur + nOffset
    ELSE h.m_size + nOffset

\* the cursor Seek sets
SeekCursor(h, nOffset, nWhence) ==
    IF nWhence = SEEK_SET THEN nOffset
    ELSE IF nWhence = SEEK_CUR THEN h.m_cur + nOffset
    ELSE h.m_size

\* VSIGoHandle::Seek
Seek(V, nOffset, nWhence) ==
    LET B == VsiBefore(V)
        h == HandleOf(V)
    IN [WithHandle(B, [h EXCEPT !.m_cur = SeekCursor(h, nOffset, nWhence), !.m_eof = 0])
           EXCEPT !.last = [ op |-> "Seek", nOffset |-> nOffset, nWhence |-> nWhence,
                             before |-> h, result |-> 0 ],
                  !.ret = "value"]

\* VSIGoHandle::Tell
Tell(V) ==
    [VsiBefore(V) EXCEPT !.last = [ op |-> "Tell", before |-> HandleOf(V),
                                    result |-> HandleOf(V).m_cur ],
                         !.ret = "value"]

\* VSIGoHandle::Eof
Eof(V) ==
    [VsiBefore(V) EXCEPT !.last = [ op |-> "Eof", before |-> HandleOf(V),
                                    result |-> HandleOf(V).m_eof ],
                         !.ret = "value"]

ReadIsEmptyWhenSizeZero(nSize, nCount) == nSize = 0

\* if (nSize * nCount == 0) return 0;
ReadIsEmpty(nSize, nCount) == nSize * nCount = 0

ReadEofFollowsLastRead(m_eof, read, requested) == IF read # requested THEN 1 ELSE 0

\* if (read != nSize * nCount) m_eof = 1;
ReadEof(m_eof, read, requested) == IF read # requested THEN 1 ELSE m_eof

ReadAdvanceByBytes(m_cur, read, nSize) == m_cur + read

\* size_t readblocks = read / nSize; m_cur += readblocks * nSize;
ReadAdvance(m_cur, read, nSize) == m_cur + (read \div nSize) * nSize

ReadFailedKeepsErrno(V, err) ==
    [V EXCEPT !.diags = Append(@, [e |-> CE_Failure, msg |-> err])]

\* if (err) { CPLError(CE_Failure, CPLE_AppDefined, "%s", err); errno = EIO; return 0; }
ReadFailed(V, err) ==
    [V EXCEPT !.diags = Append(@, [e |-> CE_Failure, msg |-> err]),
              !.errno = EIO]

\* VSIGoHandle::Read; answer is what the read callback returns if it is called
Read(V, nSize, nCount, answer) ==
    LET B == VsiBefore(V)
        h == HandleOf(V)
        call == [ op |-> "Read", nSize |-> nSize, nCount |-> nCount, answer |-> answer,
                  before |-> h, result |-> 0 ]
    IN
    IF ReadIsEmpty(nSize, nCount)
    THEN [B EXCEPT !.last = call, !.ret = "value"]
    ELSE LET C == [B EXCEPT !.cbLog = Append(@, [ cb |-> "read", key |-> h.m_filename,
                                                  off |-> h.m_cur, clen |-> nSize * nCount ])]
         IN IF answer.err # None
            THEN [ReadFailed(C, answer.err[1])
                     EXCEPT !.last = call, !.ret = "value"]
            ELSE [WithHandle(C, [h EXCEPT
                        !.m_eof = ReadEof(h.m_eof, answer.read, nSize * nCount),
                        !.m_cur = ReadAdvance(h.m_cur, answer.read, nSize)])
                     EXCEPT !.last = [call EXCEPT !.result = answer.read \div nSize],
                            !.ret = "value"]

\* VSIGoHandle::Write; the -1 it returns is converted to size_t
Write(V, nSize, nCount) ==
    [VsiBefore(V) EXCEPT
        !.diags = Append(@, [e |-> CE_Failure, msg |-> "Write not implemented for go handlers"]),
        !.last = [ op |-> "Write", before |-> HandleOf(V), result |-> -1 ],
        !.ret = "value"]

\* VSIGoHandle::Flush
Flush(V) ==
    [VsiBefore(V) EXCEPT
        !.diags = Append(@, [e |-> CE_Failure, msg |-> "Flush not implemented for go handlers"]),
        !.last = [ op |-> "Flush", before |-> HandleOf(V), result |-> -1 ],
        !.ret = "value"]

TruncateResizes(V, nNewSize) ==
    [WithHandle(VsiBefore(V), [HandleOf(V) EXCEPT !.m_size = nNewSize]) EXCEPT
        !.last = [ op |-> "Truncate", before |-> HandleOf(V), result |-> 0 ],
        !.ret = "value"]

\* VSIGoHandle::Truncate
Truncate(V, nNewSize) ==
    [VsiBefore(V) EXCEPT
        !.diags = Append(@, [e |-> CE_Failure,
                             msg |-> "Truncate not implemented for go handlers"]),
        !.last = [ op |-> "Truncate", before |-> HandleOf(V), result |-> -1 ],
        !.ret = "value"]

VsiWrite(nSize, nCount) ==
    /\ vsi.file # None
    /\ vsi' = Write(vsi, nSize, nCount)
    /\ UNCHANGED <<th, rmr, fm>>

VsiFlush ==
    /\ vsi.file # None
    /\ vsi' = Flush(vsi)
    /\ UNCHANGED <<th, rmr, fm>>

VsiTruncate(nNewSize) ==
    /\ vsi.file # None
    /\ vsi' = Truncate(vsi, nNewSize)
    /\ UNCHANGED <<th, rmr, fm>>

\* VSIGoHandle::ReadMultiRange on the open handle: the handle is left as the
\* call leaves it, and the call's diagnostics and errno are the bridge's
VsiReadMultiRange(nRanges, panOffsets, panSizes, answer, garbage) ==
    /\ vsi.file # None
    /\ LET h == HandleOf(vsi)
           R == ReadMultiRange([rmr EXCEPT !.handle = h, !.errno = vsi.errno], nRanges,
                               ZeroBuffers(nRanges, panSizes), panOffsets, panSizes,
                               answer, garbage)
       IN vsi' = [WithHandle(VsiBefore(vsi), R.handle) EXCEPT
                     !.diags = R.diags, !.errno = R.errno,
                     !.cbLog = << [ cb |-> "multiread", key |-> h.m_filename ] >>,
                     !.last = [ op |-> "ReadMultiRange", before |-> h, result |-> R.ret ],
                     !.ret = "value"]
    /\ UNCHANGED <<th, rmr, fm>>

VsiSeek(nOffset, nWhence) ==
    /\ vsi.file # None
    /\ SeekCursor(HandleOf(vsi), nOffset, nWhence) <= MaxCursor
    /\ vsi' = Seek(vsi, nOffset, nWhence)
    /\ UNCHANGED <<th, rmr, fm>>

VsiTell ==
    /\ vsi.file # None
    /\ vsi' = Tell(vsi)
    /\ UNCHANGED <<th, rmr, fm>>

VsiEof ==
    /\ vsi.file # None
    /\ vsi' = Eof(vsi)
    /\ UNCHANGED <<th, rmr, fm>>

VsiRead(nSize, nCount, answer) ==
    /\ vsi.file # None
    /\ HandleOf(vsi).m_cur + nSize * nCount <= MaxCursor
    /\ vsi' = Read(vsi, nSize, nCount, answer)
    /\ UNCHANGED <<th, rmr, fm>>

---------------------------------------------------------------------------
(* VSIInstallGoHandler and the native file manager *)

\* prefixes a caller may ask for; "/vsimem/" is one the library installs itself
Prefixes == { "/vsimem/", "p/", "q/" }

BuiltinHandler == [ builtin |-> TRUE ]

\* VSIFileManager: the prefixes in the order they were installed, and the
\* handler installed on each (None: no handler); created counts the
\* VSIGoFilesystemHandler objects constructed so far
FmInitial ==
    [ prefixes |-> << "/vsimem/" >>,
      handlers |-> [p \in Prefixes |-> IF p = "/vsimem/" THEN Some(BuiltinHandler) ELSE None],
      created |-> 0,
      last |-> [ op |-> "none" ],
      before |-> [p \in Prefixes |-> IF p = "/vsimem/" THEN Some(BuiltinHandler) ELSE None] ]

\* VSIFileManager::GetPrefixes
GetPrefixes(F) == F.prefixes

\* VSIFileManager::InstallHandler(sPrefix, poHandler)
InstallHandler(F, sPrefix, poHandler) ==
    [F EXCEPT !.prefixes = IF F.handlers[sPrefix] = None THEN Append(@, sPrefix) ELSE @,
              !.handlers[sPrefix] = Some(poHandler)]

PrefixRegisteredFirstOnly(papszPrefix, pszPrefix, i) ==
    i <= Len(papszPrefix) /\ papszPrefix[i] = pszPrefix

\* for (i = 0; papszPrefix && papszPrefix[i]; ++i) if (strcmp(papszPrefix[i], pszPrefix) == 0)
RECURSIVE PrefixRegistered(_, _, _)
PrefixRegistered(papszPrefix, pszPrefix, i) ==
    IF i > Len(papszPrefix) THEN FALSE
    ELSE IF papszPrefix[i] = pszPrefix THEN TRUE
    ELSE PrefixRegistered(papszPrefix, pszPrefix, i + 1)

\* VSIInstallGoHandler(ctx, pszPrefix, bufferSize, cacheSize); lr is what the
\* Go logger answers if the diagnostic reaches it
VSIInstallGoHandler(t, c, pszPrefix, bufferSize, cacheSize, lr) ==
    /\ th[t].pc = "idle"
    /\ c \in Contexts
    /\ LET T0 == godalWrap([IdleThread(th[t].cfg) EXCEPT
                                !.fn = "VSIInstallGoHandler", !.ctx = c])
           call == [ op |-> "VSIInstallGoHandler", pszPrefix |-> pszPrefix,
                     bufferSize |-> bufferSize, cacheSize |-> cacheSize ]
           F == [fm EXCEPT !.last = call, !.before = fm.handlers]
       IN IF PrefixRegistered(GetPrefixes(fm), pszPrefix, 1)
          THEN /\ th' = [th EXCEPT ![t] =
                            Done(godalUnwrap(CPLError(T0, CE_Failure, CPLE_AppDefined,
                                     "handler already registered on prefix", lr)), "void")]
               /\ fm' = F
          ELSE /\ th' = [th EXCEPT ![t] = Done(godalUnwrap(T0), "void")]
               /\ fm' = InstallHandler([F EXCEPT !.created = @ + 1], pszPrefix,
                            [ handler |-> VSIGoFilesystemHandler(bufferSize, cacheSize),
                              id |-> F.created + 1 ])
    /\ UNCHANGED <<vsi, rmr>>

---------------------------------------------------------------------------
(* Specifications *)

Init ==
    /\ th = [t \in Threads |-> IdleThread(PriorConfig)]
    /\ vsi = VsiInitial(0, 0)
    /\ rmr = RmrInitial
    /\ fm = FmInitial

Next == BridgeStep(1)

Spec == Init /\ [][Next]_vars

InitVSI ==
    /\ th = [t \in Threads |-> IdleThread(PriorConfig)]
    /\ \E bufferSize, cacheSize \in 0..MaxBufferSize :
          vsi = VsiInitial(bufferSize, cacheSize)
    /\ rmr = RmrInitial
    /\ fm = FmInitial

NextVSI ==
    \/ \E pszFilename \in Filenames, pszAccess \in AccessModes,
          bSetError \in BOOLEAN, answer \in SizeAnswers :
          VsiOpen(pszFilename, pszAccess, bSetError, answer)
    \/ VsiClose

SpecVSI == InitVSI /\ [][NextVSI]_vars

NextRMR ==
    \/ RmrReturn
    \/ /\ rmr.call = None
       /\ \E nRanges \in 1..MaxRanges :
            \E panOffsets \in [1..nRanges -> RangeOffsets],
               panSizes \in [1..nRanges -> RangeSizes],
               answer \in MultiReadAnswers, garbage \in GarbagePatterns :
                RmrReadMultiRange(nRanges, panOffsets, panSizes, answer, garbage)

SpecRMR == Init /\ [][NextRMR]_vars

\* batches of any length, the empty batch included
NextRMRAny ==
    \/ NextRMR
    \/ /\ rmr.call = None
       /\ \E beyondOffset \in BeyondOffsets, beyondSize \in BeyondSizes,
             answer \in MultiReadAnswers, garbage \in GarbagePatterns :
              RmrReadMultiRangeEmpty(beyondOffset, beyondSize, answer, garbage)

SpecRMRAny == Init /\ [][NextRMRAny]_vars

\* a handle that was opened for reading is used until it is closed
NextHandle ==
    \/ /\ vsi.file = None
       /\ \E pszAccess \in { <<"r">>, <<"r", "b">> }, answer \in SizeAnswers :
             VsiOpen("k", pszAccess, FALSE, answer)
    \/ VsiClose
    \/ VsiTell
    \/ VsiEof
    \/ /\ vsi.file # None
       /\ \E nOffset \in 0..MaxSeekOffset, nWhence \in Whences : VsiSeek(nOffset, nWhence)
    \/ /\ vsi.file # None
       /\ \E nSize \in 0..MaxElemSize, nCount \in 0..MaxCount :
             \E answer \in ReadAnswers(nSize * nCount) : VsiRead(nSize, nCount, answer)

SpecHandle == InitVSI /\ [][NextHandle]_vars

\* every operation of an open handle
NextFrame ==
    \/ /\ vsi.file = None
       /\ \E answer \in SizeAnswers : VsiOpen("k", <<"r">>, FALSE, answer)
    \/ VsiClose
    \/ VsiTell
    \/ VsiEof
    \/ VsiFlush
    \/ /\ vsi.file # None
       /\ \E nNewSize \in {0, 1} : VsiTruncate(nNewSize)
    \/ /\ vsi.file # None
       /\ \E nCount \in {0, 1} : VsiWrite(1, nCount)
    \/ /\ vsi.file # None
       /\ \E nOffset \in {0, 1}, nWhence \in Whences : VsiSeek(nOffset, nWhence)
    \/ /\ vsi.file # None
       /\ \E nCount \in {1, 2} :
             \E answer \in ReadAnswers(nCount) : VsiRead(1, nCount, answer)
    \/ /\ vsi.file # None
       /\ \E nRanges \in 1..2 :
             \E panOffsets \in [1..nRanges -> {0, 1}], answer \in MultiReadAnswers :
                 VsiReadMultiRange(nRanges, panOffsets, [i \in 1..nRanges |-> 1],
                                   answer, [ base |-> 200, step |-> 1 ])

SpecFrame == InitVSI /\ [][NextFrame]_vars

\* handlers are installed one call after another
NextInstall ==
    \/ /\ th[1].pc = "idle"
       /\ \E c \in Contexts, pszPrefix \in Prefixes, lr \in LoggerRets :
             \E bufferSize, cacheSize \in 0..MaxBufferSize :
                VSIInstallGoHandler(1, c, pszPrefix, bufferSize, cacheSize, lr)
    \/ Return(1)

SpecInstall == Init /\ [][NextInstall]_vars

\* calls of godalLayerDeleteFeature and godalSetDatasetNoDataValue
NextGuards ==
    \/ /\ th[1].pc = "idle"
       /\ \E c \in Contexts : godalLayerDeleteFeature_enter(1, c)
    \/ /\ th[1].pc = "idle"
       /\ \E c \in Contexts : godalSetDatasetNoDataValue_enter(1, c)
    \/ /\ InNative(th[1])
       /\ \E e \in Severities, msg \in Msgs, lr \in LoggerRets : NativeRaise(1, e, msg, lr)
    \/ \E fid \in FIDs, lr \in LoggerRets : godalLayerDeleteFeature_fid(1, fid, lr)
    \/ \E gret \in OGRErrs, lr \in LoggerRets : godalLayerDeleteFeature(1, gret, lr)
    \/ \E count \in 0..MaxBands, lr \in LoggerRets : godalSetDatasetNoDataValue_count(1, count, lr)
    \/ \E br \in {CE_None, CE_Warning, CE_Failure}, lr \in LoggerRets :
          godalSetDatasetNoDataValue(1, br, lr)
    \/ Return(1)

SpecGuards == Init /\ [][NextGuards]_vars

\* two threads, each making calls of godalOpen with contexts of its own
NextThreads ==
    \/ \E t \in Threads :
          /\ th[t].pc = "idle"
          /\ \E c \in Contexts : Enter(t, "godalOpen", c)
    \/ \E t \in Threads :
          /\ InNative(th[t])
          /\ \E lr \in LoggerRets : NativeRaise(t, CE_Warning, "x", lr)
    \/ \E t \in Threads :
          /\ InNative(th[t])
          /\ \E ret \in Pointers, lr \in LoggerRets : godalOpen(t, ret, lr)
    \/ \E t \in Threads : Return(t)

SpecThreads == Init /\ [][NextThreads]_vars

---------------------------------------------------------------------------
(* Claims about VSIGoFilesystemHandler::Open *)

\* fopen modes that write or append
IsWriteOrAppend(access) ==
    strchr(access, "w") # 0 \/ strchr(access, "a") # 0 \/ strchr(access, "+") # 0

\* C9: Open with a write or append access mode returns no handle, raises a
\* diagnostic and invokes no callback of the caller
C9_WriteAppendRejected ==
    (vsi.last.op = "Open" /\ IsWriteOrAppend(vsi.last.access))
        => /\ vsi.ret = "null"
           /\ vsi.file = None
           /\ vsi.diags # <<>>
           /\ vsi.cbLog = <<>>

\* the other fopen modes: they only read
IsReadMode(access) == ~IsWriteOrAppend(access)

\* C10: Open in a read mode returns null, sets errno to ENOENT and builds no
\* handle when the size callback answers -1; otherwise it returns a handle,
\* raw or cache-wrapped, with cursor 0, EOF flag 0 and the size answered
C10_OpenSeedsHandle ==
    (vsi.last.op = "Open" /\ IsReadMode(vsi.last.access))
        => /\ vsi.cbLog = << [cb |-> "size", key |-> "k"] >>
           /\ IF vsi.last.answer.s = -1
              THEN /\ vsi.ret = "null"
                   /\ vsi.errno = ENOENT
                   /\ vsi.file = None
                   /\ vsi.constructed = 0
              ELSE /\ vsi.ret = "handle"
                   /\ vsi.file # None
                   /\ vsi.constructed = 1
                   /\ vsi.file[1].base.m_cur = 0
                   /\ vsi.file[1].base.m_eof = 0
                   /\ vsi.file[1].base.m_size = vsi.last.answer.s
                   /\ vsi.file[1].base.m_filename = "k"

\* a file of non-zero size has been opened through the caching decorator
C10_Witness ==
    /\ vsi.last.op = "Open"
    /\ vsi.last.access = <<"r", "b">>
    /\ vsi.last.answer.s = MaxFileSize
    /\ vsi.file # None
    /\ vsi.file[1].wrapped # None
    /\ vsi.file[1].base.m_size = MaxFileSize

---------------------------------------------------------------------------
(* Claims about the error/config scope bridge *)

\* C1: when a bridged function that returns a primary result returns
\* null, the context reports an error (errMessage != null or failed != 0)
C1_NullResultHasError ==
    \A t \in Threads :
        (th[t].pc = "done" /\ th[t].fn \in ResultFns /\ th[t].result = "null")
            => failed(th[t]) = 1

\* C2: a native call is only ever made with the call's context installed,
\* and a function that called godalWrap returns with the handler stack as
\* it found it, having called godalUnwrap exactly once
C2_NativeCallsUnderContext ==
    \A t \in Threads :
        /\ InNative(th[t]) => th[t].stack # <<>>
        /\ (th[t].pc = "done" /\ th[t].fn \in WrappedFns)
               => (th[t].stack = <<>> /\ th[t].unwraps = 1)

\* the KEY=VALUE entries of a context's option list
KeyValueEntries(c) ==
    IF c.configOptions = None THEN {}
    ELSE { i \in 1..Len(c.configOptions[1]) : strchr(c.configOptions[1][i], "=") # 0 }

\* the entry that names KEY last in the list
IsLastEntryOf(c, i) ==
    \A j \in KeyValueEntries(c) :
        OptKey(c.configOptions[1][j]) = OptKey(c.configOptions[1][i]) => j <= i

\* C3 (as stated): during the native call every KEY of a KEY=VALUE entry has
\* the thread-local value VALUE, and on return every such KEY is unset
C3_EveryEntryApplied ==
    \A t \in Threads : \A i \in KeyValueEntries(th[t].ctx) :
        LET option == th[t].ctx.configOptions[1][i] IN
        /\ InNative(th[t]) => th[t].cfg[OptKey(option)] = Some(OptValue(option))
        /\ th[t].pc = "done" => th[t].cfg[OptKey(option)] = None

\* C3 (amended): during the native call every KEY has the VALUE of the last
\* entry that names it, on return every such KEY is unset (not restored),
\* and a key no entry names keeps the value it had on entry
C3_LastEntryAppliedThenUnset ==
    \A t \in Threads :
        /\ \A i \in KeyValueEntries(th[t].ctx) :
              LET option == th[t].ctx.configOptions[1][i] IN
              /\ (InNative(th[t]) /\ IsLastEntryOf(th[t].ctx, i))
                     => th[t].cfg[OptKey(option)] = Some(OptValue(option))
              /\ th[t].pc = "done" => th[t].cfg[OptKey(option)] = None
        /\ \A k \in ConfigKeys :
              (th[t].pc # "idle" /\
               \A i \in KeyValueEntries(th[t].ctx) : OptKey(th[t].ctx.configOptions[1][i]) # k)
                  => th[t].cfg[k] = th[t].entryCfg[k]

\* a call has returned whose options named A, which had a value on entry
C3_Witness ==
    /\ th[1].pc = "done"
    /\ th[1].fn = "godalOpen"
    /\ th[1].ctx.configOptions # None
    /\ th[1].entryCfg[<<"A">>] = Some(<<"0">>)
    /\ th[1].cfg[<<"A">>] = None
    /\ th[1].cfg[<<"B">>] = None

\* the messages of the diagnostics of severity warning or above, in order
RECURSIVE SurfacedMessages(_)
SurfacedMessages(ds) ==
    IF ds = <<>> THEN <<>>
    ELSE IF Head(ds).e >= CE_Warning
         THEN <<Head(ds).msg>> \o SurfacedMessages(Tail(ds))
         ELSE SurfacedMessages(Tail(ds))

RECURSIVE JoinLines(_)
JoinLines(ms) ==
    IF Len(ms) = 1 THEN ms[1]
    ELSE ms[1] \o "\n" \o JoinLines(Tail(ms))

\* C7: without a logger, errMessage is null when no diagnostic of severity
\* warning or above was raised, and otherwise the messages of those
\* diagnostics, in the order raised, joined by one newline
C7_StrictAggregation ==
    \A t \in Threads :
        (th[t].fn \in WrappedFns /\ th[t].ctx.handlerIdx = 0)
            => LET ms == SurfacedMessages(th[t].raised) IN
               /\ th[t].ctx.errMessage = IF ms = <<>> THEN None ELSE Some(JoinLines(ms))
               /\ th[t].ctx.failed = 0
               /\ th[t].goLog = <<>>

\* debug, warning, failure has been raised: "<warning>\n<failure>"
C7_Witness ==
    /\ th[1].pc = "done"
    /\ th[1].fn = "test_godal_error_handling"
    /\ th[1].ctx.handlerIdx = 0
    /\ Len(th[1].raised) = 3
    /\ th[1].raised[1].e = CE_Debug
    /\ th[1].ctx.errMessage =
           Some("this is a warning message\nthis is a failure message")

\* C8: with a logger, every diagnostic raised, whatever its severity, is
\* forwarded once, in order, with the logger's id; failed is 1 exactly when
\* some invocation of the logger returned non-zero; errMessage stays null
C8_LoggerForwarding ==
    \A t \in Threads :
        (th[t].fn \in WrappedFns /\ th[t].ctx.handlerIdx # 0)
            => /\ Len(th[t].goLog) = Len(th[t].raised)
               /\ \A i \in 1..Len(th[t].raised) :
                     /\ th[t].goLog[i].id = th[t].ctx.handlerIdx
                     /\ th[t].goLog[i].e = th[t].raised[i].e
                     /\ th[t].goLog[i].n = th[t].raised[i].n
                     /\ th[t].goLog[i].msg = th[t].raised[i].msg
               /\ th[t].ctx.failed = 1 <=> \E i \in 1..Len(th[t].goLog) : th[t].goLog[i].ret # 0
               /\ th[t].ctx.failed \in {0, 1}
               /\ th[t].ctx.errMessage = None

\* the logger refused a debug message, then accepted a failure
C8_Witness ==
    /\ th[1].pc = "done"
    /\ th[1].ctx.handlerIdx # 0
    /\ Len(th[1].goLog) = 2
    /\ th[1].goLog[1].e = CE_Debug /\ th[1].goLog[1].ret # 0
    /\ th[1].goLog[2].e = CE_Failure /\ th[1].goLog[2].ret = 0
    /\ th[1].ctx.failed = 1

---------------------------------------------------------------------------
(* Claims about VSIGoHandle::ReadMultiRange *)

\* ranges k - 1 and k of a batch are adjacent
AdjacentToPrevious(call, k) ==
    k > 1 /\ call.panOffsets[k - 1] + call.panSizes[k - 1] = call.panOffsets[k]

HasAdjacentPair(call) == \E k \in 1..call.nRanges : AdjacentToPrevious(call, k)

\* the first range of the run of adjacent ranges that range i belongs to
RunStart(call, i) ==
    CHOOSE k \in 1..i :
        /\ ~AdjacentToPrevious(call, k)
        /\ \A j \in (k + 1)..i : AdjacentToPrevious(call, j)

\* the number of the run that range i belongs to, counted from 1
RunOf(call, i) == Cardinality({ k \in 1..i : ~AdjacentToPrevious(call, k) })

\* the sum of the lengths of ranges from..to
RECURSIVE LengthOf(_, _, _)
LengthOf(call, from, to) ==
    IF from > to THEN 0 ELSE call.panSizes[from] + LengthOf(call, from + 1, to)

\* the last range of the run that range i belongs to
RunEnd(call, i) ==
    CHOOSE k \in i..call.nRanges :
        /\ \A j \in (i + 1)..k : AdjacentToPrevious(call, j)
        /\ (k = call.nRanges \/ ~AdjacentToPrevious(call, k + 1))

\* C4: when some pair of consecutive ranges is adjacent, the multi-range
\* callback is invoked exactly once, with as many entries as there are merged
\* runs, with the merged buffers, and with each run's offset (that of its
\* first member) and size (the sum of its members' sizes)
C4_MergedBatchDispatched ==
    (rmr.call # None /\ HasAdjacentPair(rmr.call[1]))
        => LET call == rmr.call[1] IN
           /\ Len(rmr.cbCalls) = 1
           /\ rmr.cbCalls[1].nRanges = RunOf(call, call.nRanges)
           /\ rmr.cbCalls[1].buffers = "mData"
           /\ \A i \in 1..call.nRanges :
                 /\ rmr.cbCalls[1].offsets[RunOf(call, i)] = call.panOffsets[RunStart(call, i)]
                 /\ rmr.cbCalls[1].sizes[RunOf(call, i)] =
                        LengthOf(call, RunStart(call, i), RunEnd(call, i))

\* C5: in the merge path, when the callback reports no error, destination
\* buffer i equals the slice of its run's merged buffer that starts at the
\* sum of the lengths of the earlier members of the run and has length[i]
C5_DemultiplexSlices ==
    (rmr.call # None /\ rmr.path = "merge" /\ rmr.call[1].answer.err = None)
        => LET call == rmr.call[1] IN
           \A i \in 1..call.nRanges :
               LET start == LengthOf(call, RunStart(call, i), i - 1) IN
               /\ Len(rmr.ppData[i]) = call.panSizes[i]
               /\ \A j \in 1..call.panSizes[i] :
                     rmr.ppData[i][j] = rmr.mData[RunOf(call, i)][start + j]

\* three adjacent ranges merged into one run of four bytes, the merged buffer
\* holding distinct bytes: the third buffer holds the run's third slice
C5_Witness ==
    /\ rmr.call # None
    /\ rmr.path = "merge"
    /\ rmr.call[1].answer.err = None
    /\ rmr.call[1].nRanges = 3
    /\ rmr.call[1].panOffsets = <<0, 1, 3>>
    /\ rmr.call[1].panSizes = <<1, 2, 1>>
    /\ rmr.mSizes = <<4>>
    /\ rmr.mData[1][3] # rmr.mData[1][4]
    /\ rmr.ppData = << <<rmr.mData[1][1]>>, <<rmr.mData[1][2], rmr.mData[1][3]>>,
                       <<rmr.mData[1][4]>> >>

\* C6: with N >= 1 ranges no two consecutive of which are adjacent, the
\* callback is invoked exactly once with the N original offsets, sizes and
\* destination buffers in their order, no intermediate buffer is allocated,
\* and when the callback reports no error its return value is returned
C6_FastPath ==
    (rmr.call # None /\ ~HasAdjacentPair(rmr.call[1]))
        => LET call == rmr.call[1] IN
           /\ rmr.cbCalls = << [ key |-> rmr.handle.m_filename, nRanges |-> call.nRanges,
                                 buffers |-> "ppData", offsets |-> call.panOffsets,
                                 sizes |-> call.panSizes ] >>
           /\ rmr.allocated = 0
           /\ rmr.mData = <<>>
           /\ call.answer.err = None => rmr.ret = call.answer.ret

\* two ranges with a gap between them, the callback answering -1 with no error
C6_Witness ==
    /\ rmr.call # None
    /\ rmr.call[1].nRanges = 2
    /\ rmr.call[1].panOffsets = <<0, 2>>
    /\ rmr.call[1].panSizes = <<1, 1>>
    /\ rmr.call[1].answer = [ ret |-> -1, err |-> None ]
    /\ rmr.path = "fast"
    /\ Len(rmr.cbCalls) = 1
    /\ rmr.ret = -1

---------------------------------------------------------------------------
(* Claims about VSIGoHandle::Read / Seek / Tell / Eof *)

\* C11: Read with nSize * nCount = 0 returns 0, does not invoke the read
\* callback, and leaves the cursor and the EOF flag unchanged
C11_EmptyReadIsNoOp ==
    (vsi.last.op = "Read" /\ vsi.last.nSize * vsi.last.nCount = 0)
        => /\ vsi.last.result = 0
           /\ vsi.cbLog = <<>>
           /\ vsi.diags = <<>>
           /\ HandleOf(vsi).m_cur = vsi.last.before.m_cur
           /\ HandleOf(vsi).m_eof = vsi.last.before.m_eof

\* a Read of zero elements of two bytes on a handle at EOF, cursor moved
C11_Witness ==
    /\ vsi.last.op = "Read"
    /\ vsi.last.nSize = 2 /\ vsi.last.nCount = 0
    /\ vsi.last.before.m_eof = 1
    /\ vsi.last.before.m_cur = 1
    /\ HandleOf(vsi).m_eof = 1
    /\ HandleOf(vsi).m_cur = 1

\* the call was a Read that reached the callback, which reported no error
\* and fewer bytes than asked for
IsShortRead(call) ==
    /\ call.op = "Read"
    /\ call.nSize * call.nCount # 0
    /\ call.answer.err = None
    /\ call.answer.read < call.nSize * call.nCount

\* C12: after a Read whose callback returned, without error, fewer bytes
\* than nSize * nCount, Eof() is non-zero and no error is reported; once
\* non-zero, Eof() stays non-zero across Tell, Eof and Read; after any Seek
\* it is 0
C12_EofUntilSeek ==
    [][ /\ vsi'.last.op = "Seek" => HandleOf(vsi').m_eof = 0
        /\ IsShortRead(vsi'.last)
               => /\ HandleOf(vsi').m_eof # 0
                  /\ vsi'.diags = <<>>
                  /\ vsi'.errno = vsi.errno
        /\ vsi'.last.op = "Eof" => vsi'.last.result = HandleOf(vsi).m_eof
        /\ (vsi.file # None /\ HandleOf(vsi).m_eof # 0
                /\ vsi'.last.op \in {"Tell", "Eof", "Read"})
               => HandleOf(vsi').m_eof # 0
      ]_vars

\* a Read that was answered in full on a handle at EOF left it at EOF
C12_Witness ==
    /\ vsi.last.op = "Read"
    /\ vsi.last.nSize = 1 /\ vsi.last.nCount = 1
    /\ vsi.last.answer = [ read |-> 1, err |-> None ]
    /\ vsi.last.before.m_eof = 1
    /\ HandleOf(vsi).m_eof = 1

\* C13: Read with nSize > 0, nCount > 0 and a callback that returns r bytes
\* without error returns the number of whole elements in r and advances the
\* cursor by that many elements, not by a trailing partial element
C13_WholeElements ==
    (vsi.last.op = "Read" /\ vsi.last.nSize > 0 /\ vsi.last.nCount > 0
         /\ vsi.last.answer.err = None)
        => LET r == vsi.last.answer.read
               nSize == vsi.last.nSize
               blocks == vsi.last.result
           IN /\ blocks * nSize <= r
              /\ r < (blocks + 1) * nSize
              /\ HandleOf(vsi).m_cur = vsi.last.before.m_cur + blocks * nSize

\* three bytes for two elements of two bytes: one element, cursor 0 -> 2
C13_Witness ==
    /\ vsi.last.op = "Read"
    /\ vsi.last.nSize = 2 /\ vsi.last.nCount = 2
    /\ vsi.last.answer = [ read |-> 3, err |-> None ]
    /\ vsi.last.before.m_cur = 0
    /\ vsi.last.result = 1
    /\ HandleOf(vsi).m_cur = 2

\* C14: when the read callback reports an error, Read raises one failure
\* diagnostic with that text, sets errno to EIO, returns 0 and leaves the
\* cursor and the EOF flag as they were
C14_ReadErrorPath ==
    (vsi.last.op = "Read" /\ vsi.last.nSize * vsi.last.nCount # 0
         /\ vsi.last.answer.err # None)
        => /\ vsi.diags = << [ e |-> CE_Failure, msg |-> vsi.last.answer.err[1] ] >>
           /\ vsi.errno = EIO
           /\ vsi.last.result = 0
           /\ HandleOf(vsi).m_cur = vsi.last.before.m_cur
           /\ HandleOf(vsi).m_eof = vsi.last.before.m_eof
           /\ HandleOf(vsi).m_size = vsi.last.before.m_size

\* the callback filled bytes and reported an error, on a handle not at EOF
C14_Witness ==
    /\ vsi.last.op = "Read"
    /\ vsi.last.nSize = 1 /\ vsi.last.nCount = 2
    /\ vsi.last.answer = [ read |-> 1, err |-> Some("read failed") ]
    /\ vsi.last.before.m_eof = 0
    /\ vsi.last.before.m_cur = 1
    /\ vsi.errno = EIO
    /\ HandleOf(vsi).m_cur = 1

\* C15: Seek returns 0 and sets the cursor to nOffset for SEEK_SET, to
\* cursor + nOffset for SEEK_CUR and to the size recorded at open for
\* SEEK_END, without invoking a callback; Tell returns the cursor
C15_SeekSetsCursor ==
    /\ vsi.last.op = "Seek"
           => /\ vsi.last.result = 0
              /\ vsi.cbLog = <<>>
              /\ HandleOf(vsi).m_size = vsi.last.before.m_size
              /\ vsi.last.nWhence = SEEK_SET => HandleOf(vsi).m_cur = vsi.last.nOffset
              /\ vsi.last.nWhence = SEEK_CUR
                     => HandleOf(vsi).m_cur = vsi.last.before.m_cur + vsi.last.nOffset
              /\ vsi.last.nWhence = SEEK_END => HandleOf(vsi).m_cur = vsi.last.before.m_size
    /\ vsi.last.op = "Tell"
           => /\ vsi.last.result = HandleOf(vsi).m_cur
              /\ HandleOf(vsi) = vsi.last.before

\* Seek(1, SEEK_END) on a file of two bytes, from cursor 1
C15_Witness ==
    /\ vsi.last.op = "Seek"
    /\ vsi.last.nWhence = SEEK_END
    /\ vsi.last.nOffset = 1
    /\ vsi.last.before.m_cur = 1
    /\ vsi.last.before.m_size = 2
    /\ HandleOf(vsi).m_cur = 2

---------------------------------------------------------------------------
(* Claims about VSIInstallGoHandler *)

\* C16: a VSIInstallGoHandler call whose prefix is already in the file
\* manager's prefix list reports "handler already registered on prefix",
\* creates no handler and leaves the handler table unchanged; a call with a
\* fresh prefix installs exactly one handler and reports no error
C16_InstallOncePerPrefix ==
    (fm.last.op = "VSIInstallGoHandler" /\ th[1].pc = "done")
        => LET prefix == fm.last.pszPrefix
               created == Cardinality({ p \in Prefixes :
                              fm.handlers[p] # None /\ fm.handlers[p] # fm.before[p] })
           IN IF fm.before[prefix] # None
              THEN /\ th[1].raised = << [ e |-> CE_Failure, n |-> CPLE_AppDefined,
                                          msg |-> "handler already registered on prefix" ] >>
                   /\ th[1].ctx.handlerIdx = 0
                          => th[1].ctx.errMessage = Some("handler already registered on prefix")
                   /\ th[1].ctx.handlerIdx # 0 => Len(th[1].goLog) = 1
                   /\ fm.handlers = fm.before
                   /\ created = 0
              ELSE /\ th[1].raised = <<>>
                   /\ failed(th[1]) = 0
                   /\ created = 1
                   /\ fm.handlers[prefix] # None
                   /\ fm.handlers[prefix][1].handler =
                          VSIGoFilesystemHandler(fm.last.bufferSize, fm.last.cacheSize)
                   /\ \A p \in Prefixes \ {prefix} : fm.handlers[p] = fm.before[p]

\* a second registration on "q/", which was installed after "p/", is
\* refused and the first handler of "q/" is still the one in the table
C16_Witness ==
    /\ fm.last.op = "VSIInstallGoHandler"
    /\ th[1].pc = "done"
    /\ fm.last.pszPrefix = "q/"
    /\ fm.prefixes = << "/vsimem/", "p/", "q/" >>
    /\ fm.last.bufferSize = 0
    /\ fm.handlers["q/"] = Some([ handler |-> VSIGoFilesystemHandler(1, 0), id |-> 2 ])
    /\ th[1].ctx.errMessage = Some("handler already registered on prefix")

---------------------------------------------------------------------------
(* Claims about godalLayerDeleteFeature and godalSetDatasetNoDataValue *)

\* the names of the native calls a thread has made in the current call
NativeNames(T) == { T.natives[i].name : i \in 1..Len(T.natives) }

\* C17: godalLayerDeleteFeature on a feature whose FID is the null FID
\* raises "cannot delete feature with no FID", never calls
\* OGR_L_DeleteFeature, and returns with the context uninstalled
C17_NullFidRejected ==
    \A t \in Threads :
        (th[t].fn = "godalLayerDeleteFeature" /\ th[t].pc \in {"native2", "done"}
             /\ th[t].locals.fid = OGRNullFID)
            => /\ th[t].pc = "done"
               /\ th[t].raised # <<>>
               /\ th[t].raised[Len(th[t].raised)] =
                      [ e |-> CE_Failure, n |-> CPLE_AppDefined,
                        msg |-> "cannot delete feature with no FID" ]
               /\ "OGR_L_DeleteFeature" \notin NativeNames(th[t])
               /\ th[t].stack = <<>>
               /\ th[t].unwraps = 1

\* the call has returned for a feature with no FID, the message in the context
C17_Witness ==
    /\ th[1].fn = "godalLayerDeleteFeature"
    /\ th[1].pc = "done"
    /\ th[1].locals.fid = OGRNullFID
    /\ th[1].ctx.handlerIdx = 0
    /\ th[1].ctx.errMessage = Some("cannot delete feature with no FID")
    /\ NativeNames(th[1]) = { "OGR_F_GetFID" }

\* C18: godalSetDatasetNoDataValue on a dataset with zero raster bands raises
\* "cannot set nodata value on dataset with no raster bands", never calls
\* GDALSetRasterNoDataValue, and returns with the context uninstalled
C18_NoBandsRejected ==
    \A t \in Threads :
        (th[t].fn = "godalSetDatasetNoDataValue" /\ th[t].pc \in {"native2", "done"}
             /\ th[t].locals.count = 0)
            => /\ th[t].pc = "done"
               /\ th[t].raised # <<>>
               /\ th[t].raised[Len(th[t].raised)] =
                      [ e |-> CE_Failure, n |-> CPLE_AppDefined,
                        msg |-> "cannot set nodata value on dataset with no raster bands" ]
               /\ "GDALSetRasterNoDataValue" \notin NativeNames(th[t])
               /\ th[t].stack = <<>>
               /\ th[t].unwraps = 1

\* the call has returned for a dataset with no bands, forwarded to a logger
C18_Witness ==
    /\ th[1].fn = "godalSetDatasetNoDataValue"
    /\ th[1].pc = "done"
    /\ th[1].locals.count = 0
    /\ th[1].ctx.handlerIdx # 0
    /\ Len(th[1].goLog) = 1
    /\ th[1].goLog[1].msg = "cannot set nodata value on dataset with no raster bands"
    /\ NativeNames(th[1]) = { "GDALGetRasterCount" }

---------------------------------------------------------------------------
(* Claims about concurrent calls *)

\* the value a key has for a thread's native call (phase "native") or after
\* its call returned (phase "done"), given the thread's config on entry and
\* the options of its own context
OwnConfig(T, k, phase) ==
    LET named == { i \in KeyValueEntries(T.ctx) : OptKey(T.ctx.configOptions[1][i]) = k }
    IN IF named = {} THEN T.entryCfg[k]
       ELSE IF phase = "done" THEN None
       ELSE LET last == CHOOSE i \in named : \A j \in named : j <= i
            IN Some(OptValue(T.ctx.configOptions[1][last]))

\* C19: with two threads running bridged calls concurrently, each context's
\* errMessage and failed reflect only the diagnostics raised on its own
\* thread, and each thread's config options are those of its own call: an
\* override of the other thread is neither visible to it nor unset by it
C19_ThreadIsolation ==
    \A t \in Threads :
        /\ th[t].pc = "idle" => th[t].cfg = th[t].entryCfg
        /\ th[t].pc # "idle" =>
              /\ \A k \in ConfigKeys :
                    th[t].cfg[k] = OwnConfig(th[t], k, IF th[t].pc = "done" THEN "done" ELSE "native")
              /\ th[t].ctx.handlerIdx = 0 =>
                    LET ms == SurfacedMessages(th[t].raised) IN
                    /\ th[t].ctx.errMessage = IF ms = <<>> THEN None ELSE Some(JoinLines(ms))
                    /\ th[t].ctx.failed = 0
              /\ th[t].ctx.handlerIdx # 0 =>
                    /\ th[t].ctx.errMessage = None
                    /\ Len(th[t].goLog) = Len(th[t].raised)
                    /\ th[t].ctx.failed = 1 <=>
                           \E i \in 1..Len(th[t].goLog) : th[t].goLog[i].ret # 0

\* both threads are inside GDALOpenEx: thread 1 with overrides and a warning
\* collected, thread 2 with neither
C19_Witness ==
    /\ InNative(th[1]) /\ InNative(th[2])
    /\ th[1].ctx.configOptions # None /\ th[2].ctx.configOptions = None
    /\ th[1].cfg[<<"A">>] = Some(<<"2">>)
    /\ th[2].cfg[<<"A">>] = Some(<<"0">>)
    /\ th[1].ctx.handlerIdx = 0 /\ th[2].ctx.handlerIdx = 0
    /\ th[1].ctx.errMessage = Some("x")
    /\ th[2].ctx.errMessage = None

---------------------------------------------------------------------------
(* Claims about results returned with an error *)

\* C20: when a bridged function that returns a handle or buffer returns with
\* an error in its context (errMessage != null or failed != 0), the result
\* it returns is null
C20_ErrorImpliesNullResult ==
    \A t \in Threads :
        (th[t].pc = "done" /\ th[t].fn \in ResultFns /\ failed(th[t]) = 1)
            => th[t].result = "null"

---------------------------------------------------------------------------
(* Claims about the error path of ReadMultiRange and about the force helpers *)

\* C21: in ReadMultiRange, on the fast path and on the merge path, when the
\* multi-range callback reports an error the call raises one failure
\* diagnostic with that text, sets errno to EIO and returns -1 whatever the
\* callback returned, and the destination buffers are left as the callback
\* left them (nothing is copied into them from the merged buffers)
C21_MultiRangeErrorPath ==
    (rmr.call # None /\ rmr.call[1].answer.err # None)
        => LET call == rmr.call[1] IN
           /\ rmr.path \in {"fast", "merge"}
           /\ rmr.diags = << [ e |-> CE_Failure, msg |-> call.answer.err[1] ] >>
           /\ rmr.errno = EIO
           /\ rmr.ret = -1
           /\ rmr.ppData = call.ppData

\* a batch of two touching ranges (merge path) whose callback returns 0 and
\* reports an error: -1 is returned and the buffers are still zeroed
C21_Witness ==
    /\ rmr.call # None
    /\ rmr.path = "merge"
    /\ rmr.call[1].panOffsets = <<0, 1>>
    /\ rmr.call[1].panSizes = <<1, 1>>
    /\ rmr.call[1].answer = [ ret |-> 0, err |-> Some("read failed") ]
    /\ rmr.allocated = 1
    /\ rmr.ret = -1
    /\ rmr.errno = EIO
    /\ rmr.ppData = << <<0>>, <<0>> >>

\* the synthetic diagnostic a force helper raises
Synthetic(msg) == [ e |-> CE_Failure, n |-> CPLE_AppDefined, msg |-> msg ]

\* a force helper applied to T gives F: one synthetic failure diagnostic is
\* raised when T's context has no message and is not failed, and nothing
\* changes otherwise
ForcesOnce(T, F, msg) ==
    IF T.ctx.errMessage = None /\ T.ctx.failed = 0
    THEN F.raised = Append(T.raised, Synthetic(msg))
    ELSE F = T

\* C22: forceError, forceCPLError and forceOGRError raise exactly one
\* synthetic failure diagnostic when the context has no error message and is
\* not failed, and otherwise raise nothing and leave the context unchanged;
\* and a bridged call whose native result signalled failure (here: the
\* native open or create returned null) never returns with a context that
\* has no error message and is not failed
C22_ForcedErrorIsSeen ==
    \A t \in Threads :
        LET T == th[t] IN
        /\ T.stack # <<>> =>
              \A lr \in LoggerRets :
                  /\ ForcesOnce(T, forceError(T, lr), "unknown error")
                  /\ ForcesOnce(T, forceCPLError(T, CE_Failure, lr), "unknown cpl error 3")
                  /\ ForcesOnce(T, forceOGRError(T, 6, lr), "unknown ogr error 6")
        /\ (T.pc = "done" /\ T.fn \in HandleFns /\ T.result = "null")
              => ~(T.ctx.errMessage = None /\ T.ctx.failed = 0)

---------------------------------------------------------------------------
(* Claims about the failure of Open and about the handler's sizes *)

---------------------------------------------------------------------------
(* Claims about godalSetDatasetNoDataValue's loop over the bands *)

\* the bands GDALSetRasterNoDataValue was called for, in call order
BandsSet(T) ==
    LET setters == SelectSeq(T.natives, LAMBDA c : c.name = "GDALSetRasterNoDataValue")
    IN [k \in 1..Len(setters) |-> setters[k].band]

\* the first status of brs that is not success, or success
FirstNonSuccess(brs) ==
    IF \A k \in 1..Len(brs) : brs[k] = CE_None THEN CE_None
    ELSE brs[CHOOSE k \in 1..Len(brs) :
                 brs[k] # CE_None /\ \A j \in 1..(k - 1) : brs[j] = CE_None]

\* the diagnostics the native library raised itself
NativeDiags(T) == SelectSeq(T.raised, LAMBDA d : d.msg \in Msgs)

\* C24: on a dataset with count >= 1 bands, godalSetDatasetNoDataValue has
\* called the per-band setter once for each band 1..count in order when it
\* returns, whatever the earlier bands returned, and the status it hands to
\* forceCPLError is that of the first band whose setter returned non-success
\* (seen in the forced diagnostic when the native library raised none)
C24_FirstBandErrorWins ==
    \A t \in Threads :
        (th[t].fn = "godalSetDatasetNoDataValue" /\ th[t].pc = "done"
             /\ th[t].locals.count >= 1)
            => LET l == th[t].locals IN
               /\ BandsSet(th[t]) = [k \in 1..l.count |-> k]
               /\ Len(l.brs) = l.count
               /\ l.ret = FirstNonSuccess(l.brs)
               /\ NativeDiags(th[t]) = <<>> =>
                     th[t].raised =
                         IF l.ret # CE_None
                         THEN << Synthetic("unknown cpl error " \o ToString(l.ret)) >>
                         ELSE <<>>

\* two bands: the first setter returned CE_Warning, the second CE_Failure and
\* was still called; the forced diagnostic names the first status
C24_Witness ==
    /\ th[1].fn = "godalSetDatasetNoDataValue"
    /\ th[1].pc = "done"
    /\ th[1].locals.count = 2
    /\ th[1].locals.brs = << CE_Warning, CE_Failure >>
    /\ BandsSet(th[1]) = << 1, 2 >>
    /\ th[1].raised = << Synthetic("unknown cpl error 2") >>

\* C25: a handler created with (bufferSize, cacheSize) stores
\* max(cacheSize, bufferSize) as its cache size; a successful Open returns the
\* raw handle when bufferSize is 0, and otherwise the caching decorator around
\* the handle, configured with bufferSize and max(cacheSize, bufferSize)
C25_CacheClampAndWrap ==
    LET b == vsi.args.bufferSize
        c == vsi.args.cacheSize
        larger == IF c >= b THEN c ELSE b
    IN /\ vsi.handler.m_buffer = b
       /\ vsi.handler.m_cache = larger
       /\ (vsi.last.op = "Open" /\ vsi.ret = "handle")
             => /\ vsi.file # None
                /\ vsi.file[1].base = VSIGoHandle("k", vsi.last.answer.s)
                /\ vsi.file[1].wrapped =
                       IF b = 0 THEN None ELSE Some([ chunk |-> b, cache |-> larger ])

\* a handler created with a cache smaller than its buffer has opened a file:
\* the decorator's cache size is the buffer size
C25_Witness ==
    /\ vsi.args = [ bufferSize |-> MaxBufferSize, cacheSize |-> 0 ]
    /\ vsi.last.op = "Open"
    /\ vsi.ret = "handle"
    /\ vsi.file # None
    /\ vsi.file[1].wrapped = Some([ chunk |-> MaxBufferSize, cache |-> MaxBufferSize ])

---------------------------------------------------------------------------
(* Claims about the runs and the result of ReadMultiRange *)

\* the positions i of a batch whose range does not end where the next begins
Breaks(call) ==
    { i \in 1..(call.nRanges - 1) :
          call.panOffsets[i] + call.panSizes[i] # call.panOffsets[i + 1] }

\* C26: for a batch of N >= 1 ranges the run count is 1 plus the number of
\* positions whose range does not end exactly where the next one begins;
\* only ranges consecutive in input order and exactly touching share a run,
\* the runs keep the input order, and a batch without such a pair is not
\* merged at all
C26_RunsAreTouchingNeighbours ==
    rmr.call # None
        => LET call == rmr.call[1] IN
           /\ rmr.nMergedRanges = 1 + Cardinality(Breaks(call))
           /\ (rmr.path = "fast") = (Breaks(call) = 1..(call.nRanges - 1))
           /\ rmr.path = "merge" =>
                 /\ Len(rmr.mOffsets) = rmr.nMergedRanges
                 /\ Len(rmr.mSizes) = rmr.nMergedRanges
                 /\ \A i \in 1..call.nRanges :
                       /\ rmr.mOffsets[RunOf(call, i)] = call.panOffsets[RunStart(call, i)]
                       /\ rmr.mSizes[RunOf(call, i)] =
                              LengthOf(call, RunStart(call, i), RunEnd(call, i))

\* [1,2) then [0,1) then [1,3): the first two touch in reverse order and stay
\* apart, the last two touch in order and form one run, although the third
\* overlaps the first
C26_Witness ==
    /\ rmr.call # None
    /\ rmr.call[1].nRanges = 3
    /\ rmr.call[1].panOffsets = <<1, 0, 1>>
    /\ rmr.call[1].panSizes = <<1, 1, 2>>
    /\ rmr.nMergedRanges = 2
    /\ rmr.path = "merge"
    /\ rmr.mOffsets = <<1, 0>>
    /\ rmr.mSizes = <<1, 3>>

\* C27: for a batch of N >= 1 ranges, with or without touching neighbours,
\* and a callback that fills every buffer it is given with the file's bytes
\* at the offset asked for, a ReadMultiRange that returns success leaves
\* destination buffer i holding the file's bytes
\* [offset[i], offset[i] + length[i])
C27_BuffersHoldSourceBytes ==
    (rmr.call # None /\ rmr.call[1].answer = [ ret |-> 0, err |-> None ] /\ rmr.ret = 0)
        => LET call == rmr.call[1] IN
           \A i \in 1..call.nRanges :
               /\ Len(rmr.ppData[i]) = call.panSizes[i]
               /\ \A j \in 1..call.panSizes[i] :
                     rmr.ppData[i][j] = SourceByte(call.panOffsets[i] + j - 1)

\* C28: ReadMultiRange reads panOffsets, panSizes and ppData only at
\* elements 0..nRanges-1 and writes its merged arrays only at elements
\* 0..nMergedRanges-1, for every nRanges >= 0, the empty batch and the
\* batch of one range included
C28_AccessesInBounds ==
    rmr.call # None
        => /\ rmr.reads \subseteq 0..(rmr.call[1].nRanges - 1)
           /\ rmr.writes \subseteq 0..(rmr.nMergedRanges - 1)

---------------------------------------------------------------------------
(* Claims about what the handle's operations leave alone *)

---------------------------------------------------------------------------
(* Claims about the utilities *)

\* how many times a native function was called
TimesCalled(T, name) ==
    Cardinality({ k \in 1..Len(T.natives) : T.natives[k].name = name })

\* C30: in godalTranslate, godalDatasetWarp, godalDatasetWarpInto,
\* godalDatasetVectorTranslate, godalRasterize and godalBuildVRT, when the
\* context is failed after the *OptionsNew call the utility is never invoked,
\* the options are freed, the context is uninstalled and null is returned
\* (godalDatasetWarpInto, which is void, returns nothing); otherwise the
\* utility is invoked exactly once
C30_UtilitySkippedAfterBadSwitches ==
    \A t \in Threads :
        LET T == th[t] IN
        /\ (T.fn \in UtilityFns /\ T.pc = "native2")
              => /\ T.locals.failedAfterOptions = 0
                 /\ TimesCalled(T, UtilityOf(T.fn)) = 1
        /\ (T.fn \in UtilityFns /\ T.pc = "done")
              => /\ TimesCalled(T, FirstNative(T.fn)) = 1
                 /\ TimesCalled(T, "OptionsFree") = 1
                 /\ T.natives[Len(T.natives)].name = "OptionsFree"
                 /\ T.stack = <<>>
                 /\ T.unwraps = 1
                 /\ IF T.locals.failedAfterOptions = 1
                    THEN /\ TimesCalled(T, UtilityOf(T.fn)) = 0
                         /\ T.fn # "godalDatasetWarpInto" => T.result = "null"
                    ELSE TimesCalled(T, UtilityOf(T.fn)) = 1

\* godalRasterize under a logger that rejected a diagnostic raised while the
\* switches were parsed: the call has returned null without GDALRasterize
C30_Witness ==
    /\ th[1].fn = "godalRasterize"
    /\ th[1].pc = "done"
    /\ th[1].ctx.handlerIdx # 0
    /\ th[1].ctx.failed = 1
    /\ th[1].locals.failedAfterOptions = 1
    /\ NativeNames(th[1]) = { "GDALRasterizeOptionsNew", "OptionsFree" }
    /\ th[1].result = "null"
    /\ th[1].stack = <<>>

=============================================================================
